---- MODULE Spec2Model ----
(***************************************************************************)
(* Risk-assessment orchestration and conversation lifecycle of meraki.     *)
(*                                                                         *)
(* services/riskAnalysis.js  : analysis cache, validators, retry wrappers, *)
(*                             analyzeAudioRecording,                      *)
(*                             classifyRiskAndCounselling                  *)
(* services/conversation.js  : create / completion / refresh / regenerate  *)
(* database/connection.js    : upsertConversation and the lookups          *)
(* controllers/webhookController.js : handleUltravoxEvents                 *)
(*                                                                         *)
(* Every operation is one action.  What the external providers answer     *)
(* (recording locator, audio download, Gemini, call details, the storage   *)
(* write, alert delivery) is drawn with \E inside the action.              *)
(***************************************************************************)
EXTENDS Integers, Sequences, FiniteSets, TLC

\* ------------------------------------------------------------------ bounds
MaxTime == 300000          \* the clock stops advancing here (ms)
MaxAlerts == 1             \* cap on alert invocations per conversation
MaxCalls == 101            \* calls whose results reach the cache (SpecCache)
MaxAttempts == 3           \* largest maxRetries handed to a wrapper (SpecRetry)
MaxBatchTime == 300        \* no batch starts that would wait beyond this (ms)
MaxListed == 6             \* calls the provider lists (SpecGroups)
MaxStored == 11            \* conversations stored at the start (SpecGroups)

\* ------------------------------------------------------- program constants
CACHE_MAX_SIZE == 100
CACHE_TTL == 300000
AudioMaxRetries == 2
TextMaxRetries == 2
RetryBase == 1000          \* ms; the factor of the backoff

\* ------------------------------------------------------------ value domains
Ids == {"c1"}
Sids == {"s1"}
UNDEF == "<undefined>"     \* JavaScript undefined / missing property
\* the signed locator getUltravoxCallRecording hands out when asked at time t
FreshUrl(t) == "fresh_url?at=" \o ToString(t)

RawRiskLevels == {"high", "bogus"}
RawInterventions == {"yes", "no"}

\* a parsed Gemini answer, before validation
AudioResponses ==
    [kind : {"response"}, transcript : {"", "t1"},
     risk_level : RawRiskLevels, immediate_intervention : RawInterventions]
TextResponses ==
    [kind : {"response"}, transcript : {UNDEF},
     risk_level : RawRiskLevels, immediate_intervention : RawInterventions]
Failure(k) ==
    [kind |-> k, transcript |-> UNDEF, risk_level |-> UNDEF,
     immediate_intervention |-> UNDEF]
AudioFailures == {Failure("download_failed"), Failure("timeout"), Failure("invalid_json")}
TextFailures == {Failure("timeout"), Failure("invalid_json")}
NoOutcome == Failure("unused")

DetailOutcomes == {"ok_url", "404", "error"}

\* JavaScript truthiness of the string-valued fields modelled here
Truthy(x) == x \notin {UNDEF, ""}
\* a || b
Or(a, b) == IF Truthy(a) THEN a ELSE b

\* String.prototype.trim on the modelled texts
Trim(t) == IF t = " " THEN "" ELSE t
\* transcripts longer than 200 characters: the same first 200 characters
\* ("head200" stands for them), then different words
LongTexts == {"head200" \o tail : tail \in {"-a", "-b"}}
\* text.substring(0, 200): every other modelled text is shorter than 200 chars
Prefix200(t) == IF t \in LongTexts THEN "head200" ELSE t
IsUrlLike(t) == t \in {"http://recording"}

\* ------------------------------------------------------------- riskAnalysis
\* the table of the earlier scoring scheme
mapRiskLevelToScoreLegacy(riskLevel) ==
    CASE riskLevel = "low" -> 1
      [] riskLevel = "medium" -> 3
      [] riskLevel = "high" -> 6
      [] riskLevel = "severe" -> 10
      [] OTHER -> 0

mapRiskLevelToScore(riskLevel) ==
    LET riskLevelScores ==
            [l \in {"no", "low", "medium", "high", "severe", "unknown"} |->
                CASE l = "no" -> 0
                  [] l = "low" -> 2
                  [] l = "medium" -> 4
                  [] l = "high" -> 7
                  [] l = "severe" -> 10
                  [] l = "unknown" -> 0]
    IN IF riskLevel \in DOMAIN riskLevelScores
       THEN riskLevelScores[riskLevel]
       ELSE 0

validRiskLevels == {"no", "low", "medium", "high", "severe"}

validateGeminiAudioResponse(response) ==
    [transcript |-> Or(response.transcript, ""),
     risk_level |-> IF response.risk_level \in validRiskLevels
                    THEN response.risk_level ELSE "no",
     immediate_intervention |->
         IF response.immediate_intervention = "yes" THEN "yes" ELSE "no"]

validateGeminiResponse(response) ==
    [transcript |-> UNDEF,
     risk_level |-> IF response.risk_level \in validRiskLevels
                    THEN response.risk_level ELSE "unknown",
     immediate_intervention |->
         IF response.immediate_intervention = "yes" THEN "yes" ELSE "no"]

\* a result whose score gains the earlier scheme's bonus for an intervention flag
ResultWithBonus(transcript, tendency, score, imm, source, url, error) ==
    [transcript |-> transcript, tendency |-> tendency,
     score |-> IF imm THEN score + 5 ELSE score,
     immediateIntervention |-> imm, source |-> source,
     recordingUrl |-> url, error |-> error]

\* the assessment handed back to the lifecycle manager
Result(transcript, tendency, score, imm, source, url, error) ==
    [transcript |-> transcript, tendency |-> tendency, score |-> score,
     immediateIntervention |-> imm, source |-> source,
     recordingUrl |-> url, error |-> error]

generateDefaultResponse ==
    Result(UNDEF, "unknown", 0, FALSE, UNDEF, UNDEF, UNDEF)

\* a default that reports the caller as risk-free instead of unassessed
generateDefaultAudioResponseNoRisk ==
    Result("", "no", 0, FALSE, "audio_analysis_failed", UNDEF, UNDEF)

\* a default that asks for immediate intervention
generateDefaultAudioResponseUrgent ==
    [transcript |-> "", tendency |-> "unknown", score |-> 0,
     immediateIntervention |-> TRUE, source |-> "audio_analysis_failed",
     recordingUrl |-> UNDEF, error |-> UNDEF]

generateDefaultAudioResponse ==
    Result("", "unknown", 0, FALSE, "audio_analysis_failed", UNDEF, UNDEF)

WithError(res, e) == [res EXCEPT !.error = e]

\* ---- analysis cache: a Map, kept as the sequence of its entries in
\* ---- insertion order
AudioKey(callId) == [kind |-> "audio_analysis", k |-> callId]
TextKey(text) == [kind |-> "gemini_text_analysis", k |-> Prefix200(text)]

CacheIndex(cache, key) ==
    IF \E i \in 1..Len(cache) : cache[i].key = key
    THEN CHOOSE i \in 1..Len(cache) : cache[i].key = key
    ELSE 0

\* an entry still served when its age is exactly the lifetime
CacheHitInclusive(cache, key, t) ==
    LET i == CacheIndex(cache, key)
    IN i # 0 /\ (t - cache[i].timestamp) <= CACHE_TTL

CacheHit(cache, key, t) ==
    LET i == CacheIndex(cache, key)
    IN i # 0 /\ (t - cache[i].timestamp) < CACHE_TTL

getCachedAnalysis(cache, key, t) == cache[CacheIndex(cache, key)].data

\* a put that makes room only once the map is over its capacity
setCachedAnalysisLateEviction(cache, key, data, t) ==
    LET evicted == IF Len(cache) > CACHE_MAX_SIZE THEN Tail(cache) ELSE cache
        i == CacheIndex(evicted, key)
        entry == [key |-> key, data |-> data, timestamp |-> t]
    IN IF i # 0 THEN [evicted EXCEPT ![i] = entry]
       ELSE Append(evicted, entry)

setCachedAnalysis(cache, key, data, t) ==
    LET evicted == IF Len(cache) >= CACHE_MAX_SIZE THEN Tail(cache) ELSE cache
        i == CacheIndex(evicted, key)
        entry == [key |-> key, data |-> data, timestamp |-> t]
    IN IF i # 0 THEN [evicted EXCEPT ![i] = entry]
       ELSE Append(evicted, entry)

\* ---- one provider attempt: the validated answer or a thrown error
\* ---- (attempts: how many were made; delays: the waits between them, in ms;
\* ----  downloads: the locator each audio attempt downloaded from)
Returned(v) ==
    [threw |-> FALSE, value |-> v, error |-> UNDEF, attempts |-> 1,
     delays |-> <<>>, downloads |-> <<>>]
Thrown(e) ==
    [threw |-> TRUE, value |-> validateGeminiResponse(NoOutcome), error |-> e,
     attempts |-> 1, delays |-> <<>>, downloads |-> <<>>]

\* an attempt that downloads from the locator issued when the call was first
\* processed, not from its argument
performGeminiAudioAnalysisStoredUrl(recordingUrl, outcome) ==
    IF outcome.kind = "response"
    THEN [Returned(validateGeminiAudioResponse(outcome)) EXCEPT
             !.downloads = <<FreshUrl(0)>>]
    ELSE [Thrown(outcome.kind) EXCEPT !.downloads = <<FreshUrl(0)>>]

\* downloadAudioFile(recordingUrl) comes first in every attempt
performGeminiAudioAnalysis(recordingUrl, outcome) ==
    IF outcome.kind = "response"
    THEN [Returned(validateGeminiAudioResponse(outcome)) EXCEPT
             !.downloads = <<recordingUrl>>]
    ELSE [Thrown(outcome.kind) EXCEPT !.downloads = <<recordingUrl>>]

performGeminiAnalysis(outcome) ==
    IF outcome.kind = "response"
    THEN Returned(validateGeminiResponse(outcome))
    ELSE Thrown(outcome.kind)

\* ---- retry wrappers: outcomes[k] is what attempt k meets
\* setTimeout(resolve, Math.pow(2, attempt) * 1000) after a failed attempt
\* a wait that does not grow
RetryDelayFlat(attempt) == 2 * RetryBase

RetryDelay(attempt) == (2 ^ attempt) * RetryBase

\* a wrapper that reports the first failure it met, not the last
AfterFailedFirstError(r, attempt, rest) ==
    [rest EXCEPT !.delays = <<RetryDelay(attempt)>> \o @,
                 !.downloads = r.downloads \o @,
                 !.error = IF rest.threw THEN r.error ELSE @]

\* the outcome of the attempts after a failed attempt r and its wait
AfterFailed(r, attempt, rest) ==
    [rest EXCEPT !.delays = <<RetryDelay(attempt)>> \o @,
                 !.downloads = r.downloads \o @]

RECURSIVE AudioRetryFrom(_, _, _, _)
AudioRetryFrom(recordingUrl, outcomes, attempt, maxRetries) ==
    LET Attempted(r) ==
            IF ~r.threw \/ attempt = maxRetries
            THEN [r EXCEPT !.attempts = attempt]
            ELSE AfterFailed(r, attempt,
                     AudioRetryFrom(recordingUrl, outcomes, attempt + 1, maxRetries))
    IN Attempted(performGeminiAudioAnalysis(recordingUrl, outcomes[attempt]))

performGeminiAudioAnalysisWithRetry(recordingUrl, outcomes, maxRetries) ==
    AudioRetryFrom(recordingUrl, outcomes, 1, maxRetries)

RECURSIVE TextRetryFrom(_, _, _)
TextRetryFrom(outcomes, attempt, maxRetries) ==
    LET Attempted(r) ==
            IF ~r.threw \/ attempt = maxRetries
            THEN [r EXCEPT !.attempts = attempt]
            ELSE AfterFailed(r, attempt,
                     TextRetryFrom(outcomes, attempt + 1, maxRetries))
    IN Attempted(performGeminiAnalysis(outcomes[attempt]))

performGeminiAnalysisWithRetry(outcomes, maxRetries) ==
    TextRetryFrom(outcomes, 1, maxRetries)

\* ---- what an assessment call gives back: the value or the exception it
\* ---- lets escape, and the cache it leaves behind
\* ---- (calls: how many locator fetches, audio attempts and text attempts
\* ---- were made on the way)
Calls(l, a, x) == [locator |-> l, audio |-> a, text |-> x]
\* ---- (via: where the value came from; raw: the risk_level of the provider
\* ---- answer it was built from, UNDEF when it was built from none)
\* ---- (locators: the recording locators the call fetched, and the ones its
\* ----  audio attempts downloaded from, in order)
NoLocators == [fetched |-> <<>>, downloads |-> <<>>]
\* a degraded result that is put in the cache like an answered one
AssessedAndCached(res, cache, calls) ==
    [threw |-> FALSE, value |-> res,
     cache |-> setCachedAnalysis(cache, AudioKey("c1"), res, 0), calls |-> calls,
     via |-> "default", raw |-> UNDEF, flag |-> UNDEF, locators |-> NoLocators]
Assessed(res, cache, calls) ==
    [threw |-> FALSE, value |-> res, cache |-> cache, calls |-> calls,
     via |-> "default", raw |-> UNDEF, flag |-> UNDEF, locators |-> NoLocators]
FromCache(res, cache) ==
    [threw |-> FALSE, value |-> res, cache |-> cache, calls |-> Calls(0, 0, 0),
     via |-> "cache", raw |-> UNDEF, flag |-> UNDEF, locators |-> NoLocators]
FromProvider(res, cache, calls, raw) ==
    [threw |-> FALSE, value |-> res, cache |-> cache, calls |-> calls,
     via |-> "provider", raw |-> raw, flag |-> UNDEF, locators |-> NoLocators]
\* (flag: the immediate_intervention of the provider answer it was built from)
Flagged(a, flag) == [a EXCEPT !.flag = flag]
Located(a, fetched, downloads) ==
    [a EXCEPT !.locators = [fetched |-> fetched, downloads |-> downloads]]

analyzeAudioRecording(callId, cache, t, geminiOk, locator, outcomes) ==
    IF ~Truthy(callId) THEN Assessed(generateDefaultAudioResponse, cache, Calls(0, 0, 0))
    ELSE IF CacheHit(cache, AudioKey(callId), t)
    THEN FromCache(getCachedAnalysis(cache, AudioKey(callId), t), cache)
    ELSE IF locator # "url"
    THEN Assessed(WithError(generateDefaultAudioResponse, "fetch_failed"), cache,
                  Calls(1, 0, 0))
    ELSE LET freshRecordingUrl == FreshUrl(t)
    IN IF ~geminiOk
    THEN Located(Assessed(WithError(generateDefaultAudioResponse, "not_configured"),
                          cache, Calls(1, 0, 0)),
                 <<freshRecordingUrl>>, <<>>)
    ELSE LET Analysed(r) ==
            IF r.threw
            THEN Located(Assessed(WithError(generateDefaultAudioResponse,
                                            "analysis_failed"),
                                  cache, Calls(1, r.attempts, 0)),
                         <<freshRecordingUrl>>, r.downloads)
            ELSE LET audioAnalysis == r.value
                     result ==
                        Result(Or(audioAnalysis.transcript, ""),
                               Or(audioAnalysis.risk_level, "no"),
                               mapRiskLevelToScore(audioAnalysis.risk_level),
                               audioAnalysis.immediate_intervention = "yes",
                               "pure_gemini_audio_analysis", freshRecordingUrl, UNDEF)
                 IN Located(Flagged(FromProvider(result,
                                setCachedAnalysis(cache, AudioKey(callId), result, t),
                                Calls(1, r.attempts, 0),
                                outcomes[r.attempts].risk_level),
                              outcomes[r.attempts].immediate_intervention),
                            <<freshRecordingUrl>>, r.downloads)
         IN Analysed(performGeminiAudioAnalysisWithRetry(freshRecordingUrl, outcomes,
                                                         AudioMaxRetries))

classifyRiskAndCounselling(transcriptOrUrl, cache, t, geminiOk, locator, audioOutcomes, outcomes) ==
    IF IsUrlLike(transcriptOrUrl)
    THEN analyzeAudioRecording(transcriptOrUrl, cache, t, geminiOk, locator, audioOutcomes)
    ELSE IF ~Truthy(transcriptOrUrl)
    THEN Assessed(generateDefaultResponse, cache, Calls(0, 0, 0))
    ELSE LET text == Trim(transcriptOrUrl)
             cacheKey == TextKey(text)
         IN IF CacheHit(cache, cacheKey, t)
            THEN FromCache(getCachedAnalysis(cache, cacheKey, t), cache)
            ELSE IF ~geminiOk
            THEN Assessed(WithError(generateDefaultResponse, "not_configured"), cache,
                          Calls(0, 0, 0))
            ELSE LET r == performGeminiAnalysisWithRetry(outcomes, TextMaxRetries)
                 IN IF r.threw
                    THEN Assessed(WithError(generateDefaultResponse, "analysis_failed"),
                                  cache, Calls(0, 0, r.attempts))
                    ELSE LET geminiAnalysis == r.value
                             result ==
                                Result(UNDEF,
                                       Or(geminiAnalysis.risk_level, "no"),
                                       mapRiskLevelToScore(geminiAnalysis.risk_level),
                                       geminiAnalysis.immediate_intervention = "yes",
                                       "pure_gemini_text_analysis", UNDEF, UNDEF)
                         IN Flagged(FromProvider(result,
                                         setCachedAnalysis(cache, cacheKey, result, t),
                                         Calls(0, 0, r.attempts),
                                         outcomes[r.attempts].risk_level),
                                       outcomes[r.attempts].immediate_intervention)

\* ------------------------------------------------------------------- state
VARIABLES
    store,          \* the persisted conversation records, by id
    analysisCache,  \* riskAnalysis.js analysisCache, in insertion order
    now,            \* Date.now()
    gemini,         \* TRUE iff the Gemini SDK was initialised at start-up
    useMongo,       \* TRUE iff conversationsCol is set (else the JSON file)
    alerts,         \* number of sendEmergencyAlert invocations, by id
    last            \* what the most recent operation did and returned

vars == <<store, analysisCache, now, gemini, useMongo, alerts, last>>

NoScore == 0 - 1

\* the slot of an id that has no record; UNDEF / NoScore mark an absent key
Absent ==
    [id |-> UNDEF, twilioCallSid |-> UNDEF, from |-> UNDEF, createdAt |-> NoScore,
     transcript |-> UNDEF, recordingUrl |-> UNDEF, tendency |-> UNDEF,
     score |-> NoScore, immediateIntervention |-> FALSE, status |-> UNDEF,
     processingMethod |-> UNDEF]

Exists(id) == store[id].id # UNDEF

\* ------------------------------------------------------ database/connection
\* the file is rewritten with the one record
upsertConversationAlone(st, record, keys, ok) ==
    IF ~ok THEN st
    ELSE [id \in DOMAIN st |-> IF id = record.id THEN record ELSE Absent]

\* keys: the properties the written object carries.  The JSON file store
\* replaces the element; MongoDB's $set leaves every other stored field.
upsertConversation(st, record, keys, ok) ==
    IF ~ok THEN st
    ELSE IF useMongo /\ st[record.id].id # UNDEF
    THEN [st EXCEPT ![record.id] =
            [id |-> record.id,
             twilioCallSid |-> IF "twilioCallSid" \in keys THEN record.twilioCallSid ELSE @.twilioCallSid,
             from |-> IF "from" \in keys THEN record.from ELSE @.from,
             createdAt |-> IF "createdAt" \in keys THEN record.createdAt ELSE @.createdAt,
             transcript |-> IF "transcript" \in keys THEN record.transcript ELSE @.transcript,
             recordingUrl |-> IF "recordingUrl" \in keys THEN record.recordingUrl ELSE @.recordingUrl,
             tendency |-> IF "tendency" \in keys THEN record.tendency ELSE @.tendency,
             score |-> IF "score" \in keys THEN record.score ELSE @.score,
             immediateIntervention |->
                 IF "immediateIntervention" \in keys
                 THEN record.immediateIntervention ELSE @.immediateIntervention,
             status |-> IF "status" \in keys THEN record.status ELSE @.status,
             processingMethod |->
                 IF "processingMethod" \in keys
                 THEN record.processingMethod ELSE @.processingMethod]]
    ELSE [st EXCEPT ![record.id] = record]

CreateKeys == {"id", "twilioCallSid", "from", "createdAt", "status"}
\* a record built as { ...existing, <fields> } carries every key
AllKeys ==
    CreateKeys \cup {"transcript", "recordingUrl", "tendency", "score",
                     "immediateIntervention", "processingMethod"}

\* the id of the record carrying this Twilio CallSid, or UNDEF
findConversationByTwilioSid(sid) ==
    IF \E id \in Ids : Exists(id) /\ store[id].twilioCallSid = sid
    THEN CHOOSE id \in Ids : Exists(id) /\ store[id].twilioCallSid = sid
    ELSE UNDEF

\* callDetails?.recordingUrl
DetailsRecordingUrl(details) == IF details = "ok_url" THEN "details_url" ELSE UNDEF

\* ------------------------------------------------- what the providers answer
Unused == <<NoOutcome, NoOutcome>>

\* what the attempts of one retry loop meet: attempt 2 only after a failure
AudioAttemptSeqs(failures) ==
    {<<a1, NoOutcome>> : a1 \in AudioResponses}
    \cup {<<a1, a2>> : a1 \in failures, a2 \in AudioResponses \cup failures}

TextAttemptSeqs(failures) ==
    {<<t1, NoOutcome>> : t1 \in TextResponses}
    \cup {<<t1, t2>> : t1 \in failures, t2 \in TextResponses \cup failures}

\* the lifecycle operations cannot tell one provider failure from another:
\* they meet one kind, the assessment functions on their own meet all
LifecycleFailures == {Failure("timeout")}

\* the answers an analyzeAudioRecording(callId) can meet in this state; only
\* the calls it makes get an answer
\* (the voice provider has a recording only for a call it knows)
AudioInputsOf(callId, failures) ==
    IF ~Truthy(callId) \/ CacheHit(analysisCache, AudioKey(callId), now)
    THEN {[locator |-> "unused", outcomes |-> Unused]}
    ELSE IF callId \notin Ids
    THEN {[locator |-> "error", outcomes |-> Unused]}
    ELSE {[locator |-> "error", outcomes |-> Unused]}
         \cup (IF gemini
               THEN {[locator |-> "url", outcomes |-> o] :
                        o \in AudioAttemptSeqs(failures)}
               ELSE {[locator |-> "url", outcomes |-> Unused]})

AudioInputs(callId) == AudioInputsOf(callId, LifecycleFailures)

TextInputs(needed) ==
    IF needed /\ gemini THEN TextAttemptSeqs(LifecycleFailures) ELSE {Unused}

\* ----------------------------------------------------------- bookkeeping
\* ---- the position of a batch operation
NoBatch ==
    [op |-> "none", phase |-> "idle", items |-> <<>>, i |-> 1, inflight |-> {},
     settled |-> <<>>, results |-> <<>>, readyAt |-> 0, before |-> {},
     previous |-> [op |-> "none", items |-> <<>>, results |-> <<>>, stored |-> {}]]

Idle ==
    [op |-> "none", ref |-> UNDEF, id |-> UNDEF, outcome |-> "none",
     hadPrev |-> FALSE, prevTranscript |-> UNDEF, assessed |-> FALSE,
     analysis |-> generateDefaultResponse, caught |-> FALSE,
     calls |-> Calls(0, 0, 0), audio |-> "none", via |-> "none",
     raw |-> UNDEF, flag |-> UNDEF, text |-> UNDEF, wrote |-> FALSE,
     events |-> <<>>, transcriptUpdated |-> FALSE, locators |-> NoLocators,
     \* what a retry wrapper was called with and what came of it
     retry |-> [maxRetries |-> 0, outcomes |-> <<>>, result |-> Thrown("unused")],
     batch |-> NoBatch,
     \* writes that operations running side by side have built (waiting) and
     \* handed to the store (landed); overlap: one began before another's
     \* write was handed over
     pending |-> [waiting |-> <<>>, landed |-> <<>>, overlap |-> FALSE],
     \* an assessment call followed await by await: fn(input) is suspended
     \* on await, in attempt; answer: what the awaited party does; met: what
     \* each finished attempt met; waited: the ms of the timers that ran out
     run |-> [fn |-> "none", input |-> UNDEF, await |-> "none", attempt |-> 0,
              answer |-> NoOutcome, met |-> <<>>, waited |-> 0]]

Init ==
    /\ store = [id \in Ids |-> Absent]
    /\ analysisCache = <<>>
    /\ now = 0
    /\ gemini \in BOOLEAN
    /\ useMongo = FALSE
    /\ alerts = [id \in Ids |-> 0]
    /\ last = Idle

\* time passes: one cache lifetime
Expire ==
    /\ now + CACHE_TTL <= MaxTime
    /\ now' = now + CACHE_TTL
    /\ last' = Idle
    /\ UNCHANGED <<store, analysisCache, gemini, useMongo, alerts>>

\* time passes up to the last instant a cache entry is alive, or up to the
\* instant its lifetime is over
AwaitExpiry ==
    /\ \E i \in 1..Len(analysisCache), d \in {CACHE_TTL - 1, CACHE_TTL} :
          /\ now < analysisCache[i].timestamp + d
          /\ analysisCache[i].timestamp + d <= MaxTime
          /\ now' = analysisCache[i].timestamp + d
    /\ last' = Idle
    /\ UNCHANGED <<store, analysisCache, gemini, useMongo, alerts>>

\* ------------------------------------- the assessment functions on their own

AfterAssessment(op, ref, a, text) ==
    /\ analysisCache' = a.cache
    /\ last' = [Idle EXCEPT !.op = op, !.ref = ref,
                            !.outcome = IF a.threw THEN "Error" ELSE "ok",
                            !.assessed = TRUE, !.analysis = a.value,
                            !.calls = a.calls, !.via = a.via,
                            !.audio = IF op = "analyzeAudioRecording"
                                      THEN a.via ELSE "none",
                            !.raw = a.raw, !.flag = a.flag, !.text = text,
                            !.locators = a.locators]
    /\ UNCHANGED <<store, now, gemini, useMongo, alerts>>

CallAnalyzeAudioRecording ==
    \E callId \in Ids \cup {""} :
    \E ai \in AudioInputsOf(callId, AudioFailures) :
        AfterAssessment("analyzeAudioRecording", callId,
            analyzeAudioRecording(callId, analysisCache, now, gemini,
                                  ai.locator, ai.outcomes),
            UNDEF)

CallClassifyRiskAndCounselling ==
    \E text \in {"", "t1", "http://recording"} \cup LongTexts :
    \E ai \in (IF IsUrlLike(text) THEN AudioInputsOf(text, AudioFailures)
               ELSE {[locator |-> "unused", outcomes |-> Unused]}) :
    \E ti \in (IF gemini /\ ~IsUrlLike(text) /\ Truthy(text)
                  /\ ~CacheHit(analysisCache, TextKey(Trim(text)), now)
               THEN (IF text \in LongTexts
                     THEN {<<t1, NoOutcome>> :
                              t1 \in {r \in TextResponses :
                                         /\ r.risk_level = "high"
                                         /\ r.immediate_intervention = "yes"}}
                     ELSE TextAttemptSeqs(TextFailures))
               ELSE {Unused}) :
        AfterAssessment("classifyRiskAndCounselling", text,
            classifyRiskAndCounselling(text, analysisCache, now, gemini,
                                       ai.locator, ai.outcomes, ti),
            text)

NextAssess ==
    \/ Expire
    \/ AwaitExpiry
    \/ CallAnalyzeAudioRecording
    \/ CallClassifyRiskAndCounselling

SpecAssess == Init /\ [][NextAssess]_vars

\* ------------------------------------------ the score mapping on its own
\* the levels the mapping is given: the provider's five, the engine's
\* 'unknown', and strings outside the table
\* the level handed to mapRiskLevelToScore: as given, or as left by the
\* validator of an audio or a text answer
LevelVia(via, riskLevel) ==
    LET response == [Failure("response") EXCEPT !.risk_level = riskLevel]
    IN CASE via = "audio" -> validateGeminiAudioResponse(response).risk_level
         [] via = "text" -> validateGeminiResponse(response).risk_level
         [] OTHER -> riskLevel

CallMapRiskLevelToScore ==
    /\ \E riskLevel \in {"no", "none", "low", "medium", "high", "severe", "unknown",
                        "bogus", "HIGH", "", UNDEF},
          via \in {"direct", "audio", "text"} :
          last' = [Idle EXCEPT
                      !.op = "mapRiskLevelToScore", !.raw = riskLevel, !.via = via,
                      !.analysis =
                          [@ EXCEPT !.tendency = LevelVia(via, riskLevel),
                                    !.score = mapRiskLevelToScore(
                                                  LevelVia(via, riskLevel))]]
    /\ UNCHANGED <<store, analysisCache, now, gemini, useMongo, alerts>>

NextScore ==
    \/ Expire
    \/ CallMapRiskLevelToScore

SpecScore == Init /\ [][NextScore]_vars

\* ------------------------------------------- the analysis cache on its own
\* Assessments of many calls run concurrently: each looks its key up, awaits
\* the provider, and puts its result.  The lookups and the puts of different
\* assessments interleave at the awaits; each of them is synchronous.
\* Calls are numbered in the order their first result arrives.
HotCalls == {1}         \* the calls that are assessed again and again

\* the number of the next call that has not been cached yet
NextCall ==
    IF analysisCache = <<>> THEN 1
    ELSE 1 + CHOOSE n \in 1..MaxCalls :
                /\ \E i \in 1..Len(analysisCache) : analysisCache[i].key.k = n
                /\ \A i \in 1..Len(analysisCache) : analysisCache[i].key.k <= n

\* line 151: setCachedAnalysis(cacheKey, result) closing an assessment of call n
CachePut ==
    /\ gemini
    /\ \E n \in HotCalls \cup ({NextCall} \cap 1..MaxCalls) :
          /\ analysisCache' =
                setCachedAnalysis(analysisCache, AudioKey(n),
                    Result("t1", "high", 7, TRUE, "pure_gemini_audio_analysis",
                           FreshUrl(now), UNDEF),
                    now)
          /\ last' = [Idle EXCEPT
                         !.op = "setCachedAnalysis", !.ref = n,
                         !.outcome = IF Len(analysisCache) >= CACHE_MAX_SIZE
                                     THEN "evicted" ELSE "stored"]
    /\ UNCHANGED <<store, now, gemini, useMongo, alerts>>

\* line 80: getCachedAnalysis(cacheKey) opening an assessment of call n
CacheGet ==
    /\ \E n \in HotCalls :
          last' = [Idle EXCEPT
                      !.op = "getCachedAnalysis", !.ref = n,
                      !.outcome = IF CacheHit(analysisCache, AudioKey(n), now)
                                  THEN "hit" ELSE "miss"]
    /\ UNCHANGED <<store, analysisCache, now, gemini, useMongo, alerts>>

NextCache ==
    \/ Expire
    \/ CachePut
    \/ CacheGet

SpecCache == Init /\ [][NextCache]_vars

\* -------------------------------------------- the retry wrappers on their own
\* what n attempts can meet: nothing is met after the first answer
AttemptSeqs(n, responses, failures) ==
    {o \in [1..n -> responses \cup failures \cup {NoOutcome}] :
        /\ o[1] # NoOutcome
        /\ \A k \in 2..n : (o[k] = NoOutcome) <=> (o[k - 1] \notin failures)}

CallAudioRetry ==
    /\ gemini
    /\ \E maxRetries \in 1..MaxAttempts :
       \E outcomes \in AttemptSeqs(maxRetries, AudioResponses, AudioFailures) :
          last' = [Idle EXCEPT
                      !.op = "performGeminiAudioAnalysisWithRetry",
                      !.retry = [maxRetries |-> maxRetries, outcomes |-> outcomes,
                                 result |-> performGeminiAudioAnalysisWithRetry(
                                                FreshUrl(now), outcomes, maxRetries)]]
    /\ UNCHANGED <<store, analysisCache, now, gemini, useMongo, alerts>>

CallTextRetry ==
    /\ gemini
    /\ \E maxRetries \in 1..MaxAttempts :
       \E outcomes \in AttemptSeqs(maxRetries, TextResponses, TextFailures) :
          last' = [Idle EXCEPT
                      !.op = "performGeminiAnalysisWithRetry",
                      !.retry = [maxRetries |-> maxRetries, outcomes |-> outcomes,
                                 result |-> performGeminiAnalysisWithRetry(
                                                outcomes, maxRetries)]]
    /\ UNCHANGED <<store, analysisCache, now, gemini, useMongo, alerts>>

NextRetry ==
    \/ CallAudioRetry
    \/ CallTextRetry

SpecRetry == Init /\ [][NextRetry]_vars

\* ------------------------------------- one assessment call, await by await
\* analyzeAudioRecording and classifyRiskAndCounselling run synchronously up
\* to an await.  What the awaited party will do is fixed when the request is
\* issued: it answers, it fails, or it never responds ("silent").
\* SettleAwait is the continuation of the call after the await.

\* a request whose generateContent is awaited on its own, without the race
\* against a timer
TimerOfBareSubmission(await, attempt) ==
    CASE await = "locator" -> 15000
      [] await = "download" -> 30000
      [] await = "text" -> 15000
      [] await = "backoff" -> RetryDelay(attempt)
      [] OTHER -> 0

\* the timer that ends an await, in ms; 0 where there is none
\*   locator:  requestUltravoxAPI(url, options, 15000), request.setTimeout
\*   download: request.setTimeout(30000, ...) in downloadAudioFile
\*   submit:   Promise.race([analysisPromise, timeoutPromise]), 300000 ms
\*   text:     Promise.race([analysisPromise, timeoutPromise]), 15000 ms
\*   backoff:  setTimeout(resolve, Math.pow(2, attempt) * 1000)
TimerOf(await, attempt) ==
    CASE await = "locator" -> 15000
      [] await = "download" -> 30000
      [] await = "submit" -> 300000
      [] await = "text" -> 15000
      [] await = "backoff" -> RetryDelay(attempt)
      [] OTHER -> 0

\* the call issues a request and is suspended on it; a fetch, a download
\* (the first step of an audio attempt) and a text submission are counted
Suspend(run, calls, await, attempt) ==
    /\ \E answer \in
            CASE await = "locator" ->
                    {Failure(k) : k \in (IF run.input \in Ids THEN {"ok"} ELSE {})
                                        \cup {"error", "silent"}}
              [] await = "download" -> {Failure(k) : k \in {"ok", "error", "silent"}}
              [] await = "submit" ->
                    AudioResponses \cup {Failure("invalid_json"), Failure("silent")}
              [] await = "text" ->
                    TextResponses \cup {Failure("invalid_json"), Failure("silent")}
              [] OTHER -> {Failure("timer")} :
          last' = [Idle EXCEPT
                      !.op = run.fn, !.ref = run.input, !.outcome = "running",
                      !.calls =
                          Calls(calls.locator + (IF await = "locator" THEN 1 ELSE 0),
                                calls.audio + (IF await = "download" THEN 1 ELSE 0),
                                calls.text + (IF await = "text" THEN 1 ELSE 0)),
                      !.run = [run EXCEPT !.await = await, !.attempt = attempt,
                                          !.answer = answer]]
    /\ UNCHANGED <<store, analysisCache, now, gemini, useMongo, alerts>>

\* the call hands back what the function makes of what was met
Returns(run, calls, locator) ==
    LET Handed(a) ==
            /\ analysisCache' = a.cache
            /\ last' = [Idle EXCEPT
                           !.op = run.fn, !.ref = run.input,
                           !.outcome = IF a.threw THEN "Error" ELSE "ok",
                           !.assessed = TRUE, !.analysis = a.value,
                           !.calls = calls, !.via = a.via,
                           !.run = [run EXCEPT !.await = "none",
                                               !.answer = NoOutcome]]
    IN /\ Handed(IF run.fn = "analyzeAudioRecording"
                 THEN analyzeAudioRecording(run.input, analysisCache, now, gemini,
                                            locator, run.met)
                 ELSE classifyRiskAndCounselling(run.input, analysisCache, now,
                                                 gemini, locator, run.met, run.met))
       /\ UNCHANGED <<store, now, gemini, useMongo, alerts>>

\* part_003 67-90 and 171-198: the checks before the first await
BeginAssessment ==
    /\ last.outcome # "running"
    /\ \E fn \in {"analyzeAudioRecording", "classifyRiskAndCounselling"} :
       \E input \in (IF fn = "analyzeAudioRecording" THEN Ids \cup {""}
                     ELSE {"", "t1", "http://recording"}) :
          LET run == [Idle.run EXCEPT !.fn = fn, !.input = input]
          IN IF fn = "analyzeAudioRecording" \/ IsUrlLike(input)
             THEN IF ~Truthy(input) \/ CacheHit(analysisCache, AudioKey(input), now)
                  THEN Returns(run, Calls(0, 0, 0), "unused")
                  ELSE Suspend(run, Calls(0, 0, 0), "locator", 0)
             ELSE IF \/ ~Truthy(input)
                     \/ CacheHit(analysisCache, TextKey(Trim(input)), now)
                     \/ ~gemini
                  THEN Returns(run, Calls(0, 0, 0), "unused")
                  ELSE Suspend(run, Calls(0, 0, 0), "text", 1)

\* the awaited promise settles: with the answer, or, when none comes, by its
\* timer; the call goes on to its next await or to its return
SettleAwait ==
    /\ last.outcome = "running"
    /\ LET run == last.run
           k == run.answer.kind
           audio == run.fn = "analyzeAudioRecording" \/ IsUrlLike(run.input)
           maxRetries == IF audio THEN AudioMaxRetries ELSE TextMaxRetries
           timer == TimerOf(run.await, run.attempt)
           lapsed == k \in {"silent", "timer"}
           after == [run EXCEPT !.waited = IF lapsed THEN @ + timer ELSE @]
           \* catch (error): rethrown on the last attempt, else the backoff
           Failed(o) ==
               IF run.attempt = maxRetries
               THEN Returns([after EXCEPT !.met = Append(@, o)], last.calls, "url")
               ELSE Suspend([after EXCEPT !.met = Append(@, o)], last.calls,
                            "backoff", run.attempt)
       IN /\ lapsed => timer > 0
          /\ CASE run.await = "locator" ->
                    IF k # "ok" THEN Returns(after, last.calls, "error")
                    ELSE IF ~gemini THEN Returns(after, last.calls, "url")
                    ELSE Suspend(after, last.calls, "download", 1)
               [] run.await = "download" ->
                    IF k = "ok" THEN Suspend(after, last.calls, "submit", run.attempt)
                    ELSE Failed(Failure("download_failed"))
               [] run.await \in {"submit", "text"} ->
                    IF k = "response"
                    THEN Returns([after EXCEPT !.met = Append(@, run.answer)],
                                 last.calls, "url")
                    ELSE Failed(IF k = "silent" THEN Failure("timeout")
                                ELSE run.answer)
               [] OTHER ->
                    Suspend(after, last.calls,
                            IF audio THEN "download" ELSE "text", run.attempt + 1)

NextRun ==
    \/ BeginAssessment
    \/ SettleAwait

\* a pending promise is settled by the event loop as soon as it can be
SpecRun == Init /\ [][NextRun]_vars /\ WF_vars(SettleAwait)

\* ------------------------------------------------------ services/conversation
createConversation(id, sid, from, writeOk) ==
    LET conversation ==
            [Absent EXCEPT !.id = id, !.twilioCallSid = sid, !.from = from,
                           !.createdAt = now, !.status = "active"]
    IN /\ store' = upsertConversation(store, conversation, CreateKeys, writeOk)
       /\ last' = [Idle EXCEPT !.op = "create", !.ref = id, !.id = id,
                               !.outcome = "ok", !.hadPrev = Exists(id),
                               !.prevTranscript = store[id].transcript,
                               !.wrote = writeOk,
                               !.events = <<IF writeOk THEN "upsert" ELSE "upsert_failed">>]
       /\ UNCHANGED <<analysisCache, now, gemini, useMongo, alerts>>

CreateConversation ==
    \E id \in Ids, sid \in Sids, from \in {"+91"}, writeOk \in BOOLEAN :
        /\ \A other \in Ids \ {id} : store[other].twilioCallSid # sid
        /\ createConversation(id, sid, from, writeOk)

\* every reference is taken for the id c1
ResolveCompletionRefAny(callId, isUltravoxCallId) == "c1"

\* the id a completion reference resolves to, or UNDEF (lines 58-73)
ResolveCompletionRef(callId, isUltravoxCallId) ==
    IF ~isUltravoxCallId
    THEN findConversationByTwilioSid(callId)
    ELSE IF callId \in Ids /\ Exists(callId) THEN callId ELSE UNDEF

\* try { analyzeAudioRecording } catch { classifyRiskAndCounselling(fallback) }
\* ai, ti: what the audio path and the text path meet
AudioWithTextFallback(callId, fallbackText, ai, ti) ==
    LET Caught(a, c) ==
            [threw |-> c.threw, caught |-> TRUE, analysis |-> c.value,
             cache |-> c.cache,
             calls |-> Calls(a.calls.locator, a.calls.audio, c.calls.text),
             audio |-> a.via, via |-> c.via, raw |-> c.raw, flag |-> c.flag,
             text |-> fallbackText]
        Tried(a) ==
            IF ~a.threw
            THEN [threw |-> FALSE, caught |-> FALSE, analysis |-> a.value,
                  cache |-> a.cache, calls |-> a.calls, audio |-> a.via,
                  via |-> a.via, raw |-> a.raw, flag |-> a.flag, text |-> UNDEF]
            ELSE Caught(a, classifyRiskAndCounselling(fallbackText, a.cache, now,
                                                      gemini, "unused", Unused, ti))
    IN Tried(analyzeAudioRecording(callId, analysisCache, now, gemini,
                                   ai.locator, ai.outcomes))

AudioThrows(callId, ai) ==
    analyzeAudioRecording(callId, analysisCache, now, gemini,
                          ai.locator, ai.outcomes).threw

StartLast(op, ref, id) ==
    [Idle EXCEPT !.op = op, !.ref = ref, !.id = id,
                 !.hadPrev = (id # UNDEF),
                 !.prevTranscript =
                     IF id # UNDEF THEN store[id].transcript ELSE UNDEF]

\* the effect of one lifecycle call: the stores it leaves, what it reports
Effect(st, cache, l, record) ==
    [store |-> st, cache |-> cache, last |-> l, record |-> record]

\* the state a lifecycle call leaves behind
Commit(e) ==
    /\ store' = e.store
    /\ analysisCache' = e.cache
    /\ last' = e.last

processCallCompletion(callId, isUltravoxCallId, ai, ti, details, writeOk) ==
    LET ultravoxCallId == ResolveCompletionRef(callId, isUltravoxCallId)
        l0 == StartLast("processCallCompletion", callId, ultravoxCallId)
    IN IF ultravoxCallId = UNDEF
       THEN Effect(store, analysisCache, [l0 EXCEPT !.outcome = "NotFound"], Absent)
       ELSE
       LET existing == store[ultravoxCallId]
           Completed(f) ==
       LET analysis == f.analysis
           transcript == IF f.caught THEN "" ELSE Or(analysis.transcript, "")
           l1 == [l0 EXCEPT !.assessed = TRUE, !.analysis = analysis,
                            !.caught = f.caught, !.calls = f.calls,
                            !.audio = f.audio, !.via = f.via,
                            !.raw = f.raw, !.flag = f.flag, !.text = f.text]
           updatedRecord ==
               [existing EXCEPT
                   !.transcript = transcript,
                   !.recordingUrl =
                       Or(analysis.recordingUrl,
                          Or(DetailsRecordingUrl(details), Or(existing.recordingUrl, ""))),
                   !.tendency = analysis.tendency,
                   !.score = analysis.score,
                   !.immediateIntervention = analysis.immediateIntervention,
                   \* line 119: with a falsy transcript the status expression
                   \* reads the undeclared recordingResult
                   !.status = "completed",
                   !.processingMethod = Or(analysis.source, "audio_gemini_analysis")]
       IN IF f.threw
          THEN Effect(store, f.cache, [l1 EXCEPT !.outcome = "Error"], Absent)
          ELSE IF ~Truthy(transcript)
          THEN Effect(store, f.cache, [l1 EXCEPT !.outcome = "ReferenceError"], Absent)
          ELSE Effect(upsertConversation(store, updatedRecord, AllKeys, writeOk),
                      f.cache,
                      [l1 EXCEPT !.outcome = "ok", !.wrote = writeOk,
                                 !.events = <<IF writeOk THEN "upsert" ELSE "upsert_failed">>],
                      updatedRecord)
       IN Completed(AudioWithTextFallback(ultravoxCallId,
              "Recording analysis failed - manual review needed", ai, ti))

CompletionAudioInputs(callId, isUltravoxCallId) ==
    LET id == ResolveCompletionRef(callId, isUltravoxCallId)
    IN IF id = UNDEF THEN {[locator |-> "unused", outcomes |-> Unused]}
       ELSE AudioInputs(id)

CompletionTextInputs(callId, isUltravoxCallId, ai) ==
    LET id == ResolveCompletionRef(callId, isUltravoxCallId)
    IN TextInputs(id # UNDEF /\ AudioThrows(id, ai))

\* getUltravoxCall is always asked; its answer only matters when the
\* analysis carries no recording locator of its own
DetailInputs(callId, isUltravoxCallId, ai) ==
    LET id == ResolveCompletionRef(callId, isUltravoxCallId)
    IN IF id = UNDEF
          \/ Truthy(analyzeAudioRecording(id, analysisCache, now, gemini,
                                          ai.locator, ai.outcomes).value.recordingUrl)
       THEN {"ok_url"}
       ELSE DetailOutcomes

\* processCallCompletion(callId, true): the reference is the conversation id
ProcessCallCompletion ==
    \E callId \in Ids :
    \E ai \in CompletionAudioInputs(callId, TRUE) :
    \E ti \in CompletionTextInputs(callId, TRUE, ai) :
    \E details \in DetailInputs(callId, TRUE, ai), writeOk \in BOOLEAN :
        /\ Commit(processCallCompletion(callId, TRUE, ai, ti, details, writeOk))
        /\ UNCHANGED <<now, gemini, useMongo, alerts>>


\* getUltravoxCall's answer in refreshConversation, as in DetailInputs
RefreshDetailInputs(callId, ai) ==
    IF Truthy(analyzeAudioRecording(callId, analysisCache, now, gemini,
                                    ai.locator, ai.outcomes).value.recordingUrl)
    THEN {"ok_url"}
    ELSE DetailOutcomes

refreshConversation(callId, ai, ti, details, writeOk) ==
    LET l0 == StartLast("refreshConversation", callId,
                        IF Exists(callId) THEN callId ELSE UNDEF)
    IN IF ~Exists(callId)
       THEN Effect(store, analysisCache, [l0 EXCEPT !.outcome = "NotFound"], Absent)
       ELSE
       LET existing == store[callId]
           Refreshed(f) ==
       LET analysis == f.analysis
           transcript == IF f.caught THEN Or(existing.transcript, "")
                         ELSE Or(analysis.transcript, "")
           transcriptUpdated == ~f.caught
           l1 == [l0 EXCEPT !.assessed = TRUE, !.analysis = analysis,
                            !.caught = f.caught, !.calls = f.calls,
                            !.audio = f.audio, !.via = f.via,
                            !.raw = f.raw, !.flag = f.flag, !.text = f.text]
           updatedRecord ==
               [existing EXCEPT
                   !.transcript = transcript,
                   !.tendency = analysis.tendency,
                   !.score = analysis.score,
                   !.immediateIntervention = analysis.immediateIntervention,
                   !.recordingUrl =
                       Or(analysis.recordingUrl,
                          Or(DetailsRecordingUrl(details), Or(existing.recordingUrl, ""))),
                   !.status = IF Truthy(transcript) THEN "completed"
                              ELSE IF Truthy(analysis.recordingUrl) THEN "analysis_only"
                              ELSE "no_data",
                   !.processingMethod = Or(analysis.source, "audio_gemini_refresh")]
       IN IF f.threw
          THEN Effect(store, f.cache, [l1 EXCEPT !.outcome = "Error"], Absent)
          ELSE Effect(upsertConversation(store, updatedRecord, AllKeys, writeOk),
                      f.cache,
                      [l1 EXCEPT !.outcome = "ok", !.wrote = writeOk,
                                 !.transcriptUpdated = transcriptUpdated,
                                 !.events = <<IF writeOk THEN "upsert" ELSE "upsert_failed">>],
                      updatedRecord)
       IN Refreshed(AudioWithTextFallback(callId,
              Or(Or(existing.transcript, ""),
                 "Re-analysis failed - using existing data"), ai, ti))

LifecycleAudioInputs(callId) ==
    IF Exists(callId) THEN AudioInputs(callId)
    ELSE {[locator |-> "unused", outcomes |-> Unused]}

RefreshConversation ==
    \E callId \in Ids :
    \E ai \in LifecycleAudioInputs(callId) :
    \E ti \in TextInputs(Exists(callId) /\ AudioThrows(callId, ai)) :
    \E details \in RefreshDetailInputs(callId, ai), writeOk \in BOOLEAN :
        /\ Commit(refreshConversation(callId, ai, ti, details, writeOk))
        /\ UNCHANGED <<now, gemini, useMongo, alerts>>

regenerateAnalysis(callId, ai, ti, writeOk) ==
    LET l0 == StartLast("regenerateAnalysis", callId,
                        IF Exists(callId) THEN callId ELSE UNDEF)
    IN IF ~Exists(callId)
       THEN Effect(store, analysisCache, [l0 EXCEPT !.outcome = "NotFound"], Absent)
       ELSE
       LET existing == store[callId]
           noTranscript == ~Truthy(existing.transcript)
                           \/ Trim(existing.transcript) = ""
           Regenerated(a, c) ==
       LET analysis == IF a.threw THEN c.value ELSE a.value
           transcript == IF a.threw THEN Or(existing.transcript, "")
                         ELSE Or(analysis.transcript, Or(existing.transcript, ""))
           l1 == [l0 EXCEPT !.assessed = TRUE, !.analysis = analysis,
                            !.caught = a.threw,
                            !.audio = a.via,
                            !.via = IF a.threw /\ ~noTranscript THEN c.via ELSE a.via,
                            !.raw = IF a.threw /\ ~noTranscript THEN c.raw ELSE a.raw,
                            !.flag = IF a.threw /\ ~noTranscript THEN c.flag ELSE a.flag,
                            !.calls = IF a.threw /\ ~noTranscript
                                      THEN Calls(a.calls.locator, a.calls.audio,
                                                 c.calls.text)
                                      ELSE a.calls,
                            !.text = IF a.threw /\ ~noTranscript
                                     THEN existing.transcript ELSE UNDEF]
           updatedRecord ==
               [existing EXCEPT
                   !.transcript = transcript,
                   !.tendency = analysis.tendency,
                   !.score = analysis.score,
                   !.immediateIntervention = analysis.immediateIntervention,
                   !.recordingUrl =
                       Or(analysis.recordingUrl, Or(existing.recordingUrl, "")),
                   !.processingMethod = Or(analysis.source, "regeneration_audio_gemini")]
       IN IF a.threw /\ noTranscript
          THEN Effect(store, a.cache, [l1 EXCEPT !.outcome = "NoTranscript"], Absent)
          ELSE IF a.threw /\ c.threw
          THEN Effect(store, c.cache, [l1 EXCEPT !.outcome = "Error"], Absent)
          ELSE Effect(upsertConversation(store, updatedRecord, AllKeys, writeOk),
                      IF a.threw THEN c.cache ELSE a.cache,
                      [l1 EXCEPT !.outcome = "ok", !.wrote = writeOk,
                                 !.events = <<IF writeOk THEN "upsert" ELSE "upsert_failed">>],
                      updatedRecord)
           Tried(a) ==
               Regenerated(a, IF a.threw
                              THEN classifyRiskAndCounselling(existing.transcript,
                                       a.cache, now, gemini, "unused", Unused, ti)
                              ELSE a)
       IN Tried(analyzeAudioRecording(callId, analysisCache, now, gemini,
                                      ai.locator, ai.outcomes))

RegenerateAnalysis ==
    \E callId \in Ids :
    \E ai \in LifecycleAudioInputs(callId) :
    \E ti \in TextInputs(Exists(callId) /\ AudioThrows(callId, ai)
                         /\ Truthy(store[callId].transcript)) :
    \E writeOk \in BOOLEAN :
        /\ Commit(regenerateAnalysis(callId, ai, ti, writeOk))
        /\ UNCHANGED <<now, gemini, useMongo, alerts>>

\* -------------------------------------------- controllers/webhookController

\* the placeholder only logs and returns alertSent: true; it has no failure
sendEmergencyAlert(e) ==
    /\ alerts[e.last.id] < MaxAlerts
    /\ alerts' = [alerts EXCEPT ![e.last.id] = @ + 1]
    /\ last' = [e.last EXCEPT
                   !.op = "handleUltravoxEvents",
                   !.events = Append(@, "alert")]

handleUltravoxEvents(callId, eventType) ==
    IF eventType \notin {"completed", "call.ended"}
    THEN /\ last' = [Idle EXCEPT !.op = "handleUltravoxEvents", !.ref = callId,
                                 !.outcome = "acknowledged"]
         /\ UNCHANGED <<store, analysisCache, alerts>>
    ELSE \E ai \in CompletionAudioInputs(callId, FALSE) :
         \E ti \in CompletionTextInputs(callId, FALSE, ai) :
         \E details \in DetailInputs(callId, FALSE, ai), writeOk \in BOOLEAN :
            LET Ended(e) ==
                    /\ store' = e.store
                    /\ analysisCache' = e.cache
                    /\ IF e.last.outcome = "ok" /\ e.record.immediateIntervention
                       THEN sendEmergencyAlert(e)
                       ELSE /\ last' = [e.last EXCEPT !.op = "handleUltravoxEvents"]
                            /\ UNCHANGED alerts
            IN Ended(processCallCompletion(callId, FALSE, ai, ti, details, writeOk))

HandleUltravoxEvents ==
    \E callId \in Ids \cup Sids, eventType \in {"call.ended", "call.started"} :
        /\ handleUltravoxEvents(callId, eventType)
        /\ UNCHANGED <<now, gemini, useMongo>>


\* ------------------------------------------- services/conversation: batches
\* ConvId(n): the n-th conversation id
ConvId(n) == "c" \o ToString(n)
BatchIds == {ConvId(n) : n \in 1..3}

StoredIds(st) == {id \in DOMAIN st : st[id].id # UNDEF}

\* getConversations(): the stored records.  updatedAt is not modelled; the
\* records come in the order of their ids.
getConversations(st) ==
    LET all == [n \in 1..Cardinality(DOMAIN st) |-> st[ConvId(n)]]
    IN SelectSeq(all, LAMBDA r : r.id # UNDEF)

\* an element of callsResponse.results
ListedCall(id) ==
    [id |-> id, callId |-> UNDEF, from |-> UNDEF, createdAt |-> NoScore]

\* ---- getUltravoxCall as validateConversationsAgainstUltravox meets it:
\* ---- the answer, or the Error it rejects with (message: its words)
LookupOk == [ok |-> TRUE, status |-> 200, message |-> <<>>]
\* reject(new Error(`API error ${response.statusCode}: ${data}`))
HttpError(status, data) ==
    [ok |-> FALSE, status |-> status,
     message |-> <<"API", "error", ToString(status)>> \o data]
\* or reject(new Error(`Request timed out after ${timeout}ms`))
Lookups ==
    {LookupOk,
     HttpError(404, <<"Not", "found">>),
     HttpError(500, <<"Internal", "error">>),
     HttpError(429, <<"throttled", "available", "in", "404", "seconds">>),
     [ok |-> FALSE, status |-> 0,
      message |-> <<"Request", "timed", "out", "after", "10000ms">>]}

\* String.prototype.includes, on the words of a message
Includes(message, word) == \E k \in 1..Len(message) : message[k] = word

\* ---- the entries of a result list, and the promises of a group
\* ---- (cause: what the item met, kept for the properties)
Fulfilled(id, status, cause) ==
    [id |-> id, status |-> status, settled |-> "fulfilled", cause |-> cause]
RejectedWith(id, cause) ==
    [id |-> id, status |-> "error", settled |-> "rejected", cause |-> cause]


ImportOp == "importConversationsFromUltravox"
ValidateOp == "validateConversationsAgainstUltravox"
RefreshOp == "batchRefreshConversations"

\* const batchSize, and the setTimeout between two groups
ImportBatchSize == 5
ImportDelay == 100
ValidateBatchSize == 10
ValidateDelay == 200
\* every item in one group
BatchSizeUnbounded(op) == 100

BatchSizeOf(op) == IF op = ImportOp THEN ImportBatchSize ELSE ValidateBatchSize
DelayOf(op) == IF op = ImportOp THEN ImportDelay ELSE ValidateDelay

\* calls.slice(i, i + batchSize), as the indices of its items
GroupOf(b) ==
    LET end == b.i + BatchSizeOf(b.op) - 1
    IN b.i .. (IF end <= Len(b.items) THEN end ELSE Len(b.items))
\* how many waits a run over n items makes
WaitsOf(op, n) == IF n = 0 THEN 0 ELSE (n - 1) \div BatchSizeOf(op)

BatchIdle == last.batch.phase \in {"idle", "done"}

\* what the provider answers an item of a batch
\* (answers: the audio answers; lookups: does getConversationById find what
\*  is stored; writes: does the storage write succeed; details: getUltravoxCall)
RichInputs ==
    [answers |-> {o \in AudioResponses :
                     /\ o.transcript = "t1"
                     /\ o.risk_level = "high"
                     /\ o.immediate_intervention = "yes"},
     lookups |-> BOOLEAN, writes |-> BOOLEAN, details |-> {"404"}]

\* a single imported call: every level and flag the provider may answer
OneCallInputs ==
    [answers |-> {o \in AudioResponses : o.transcript = "t1"},
     lookups |-> {TRUE}, writes |-> BOOLEAN, details |-> {"404"}]

BatchAudioInputs(callId, answers) ==
    IF ~Truthy(callId) \/ CacheHit(analysisCache, AudioKey(callId), now)
    THEN {[locator |-> "unused", outcomes |-> Unused]}
    ELSE {[locator |-> "error", outcomes |-> Unused]}
         \cup (IF gemini
               THEN {[locator |-> "url", outcomes |-> <<a, NoOutcome>>] : a \in answers}
               ELSE {[locator |-> "url", outcomes |-> Unused]})

\* getUltravoxCall's answer matters only when the analysis has no locator
BatchDetailInputs(callId, ai, details) ==
    IF Truthy(analyzeAudioRecording(callId, analysisCache, now, gemini,
                                    ai.locator, ai.outcomes).value.recordingUrl)
    THEN {"ok_url"}
    ELSE details


\* ---- importConversationsFromUltravox
processUltravoxCall(call, ai, ti, details, lookupOk, writeOk) ==
    LET callId == Or(call.id, call.callId)
    IN IF ~Truthy(callId)
       THEN Effect(store, analysisCache,
                   [Idle EXCEPT !.op = ImportOp, !.outcome = "skipped"], Absent)
       ELSE
       LET found == lookupOk /\ Exists(callId)
           existing == IF found THEN store[callId] ELSE Absent
           l0 == [StartLast(ImportOp, callId, callId) EXCEPT !.hadPrev = found]
           Imported(f) ==
       LET analysis == f.analysis
           transcript == IF f.caught THEN "" ELSE Or(analysis.transcript, "")
           l1 == [l0 EXCEPT !.assessed = TRUE, !.analysis = analysis,
                            !.caught = f.caught, !.calls = f.calls,
                            !.audio = f.audio, !.via = f.via,
                            !.raw = f.raw, !.flag = f.flag, !.text = f.text]
           record ==
               [existing EXCEPT
                   !.id = callId,
                   !.from = Or(UNDEF, Or(call.from, "unknown")), \* callDetails?.from is undefined
                   !.createdAt = IF call.createdAt # NoScore
                                 THEN call.createdAt ELSE now,
                   !.transcript = transcript,
                   !.recordingUrl =
                       Or(analysis.recordingUrl,
                          Or(DetailsRecordingUrl(details), "")),
                   !.tendency = analysis.tendency,
                   !.score = analysis.score,
                   !.immediateIntervention = analysis.immediateIntervention,
                   !.status = IF found THEN "imported_updated" ELSE "imported"]
       IN IF f.threw
          THEN Effect(store, f.cache, [l1 EXCEPT !.outcome = "Error"], Absent)
          ELSE Effect(upsertConversation(store, record, AllKeys, writeOk),
                      f.cache,
                      [l1 EXCEPT !.outcome = IF found THEN "updated" ELSE "created",
                                 !.wrote = writeOk,
                                 !.events = <<IF writeOk THEN "upsert"
                                              ELSE "upsert_failed">>],
                      record)
       IN Imported(AudioWithTextFallback(callId,
              "Imported call - audio analysis failed", ai, ti))

\* a check whose catch lets every error but NotFound escape
validateConversationRethrow(conv, lookup) ==
    IF lookup.ok
    THEN Fulfilled(conv.id, "valid", lookup)
    ELSE IF Includes(lookup.message, "404")
    THEN Fulfilled(conv.id, "invalid", lookup)
    ELSE RejectedWith(conv.id, lookup)

\* ---- validateConversationsAgainstUltravox: the promise of one conversation
validateConversation(conv, lookup) ==
    IF lookup.ok
    THEN Fulfilled(conv.id, "valid", lookup)
    ELSE IF Includes(lookup.message, "404")
    THEN Fulfilled(conv.id, "invalid", lookup)
    ELSE Fulfilled(conv.id, "error", lookup)

\* ---- refreshConversation as batchRefreshConversations calls it: its
\* ---- getConversationById may come back empty
refreshStoredConversation(callId, lookupOk, ai, ti, details, writeOk) ==
    IF ~lookupOk
    THEN Effect(store, analysisCache,
                [StartLast("refreshConversation", callId, UNDEF) EXCEPT
                    !.outcome = "NotFound"],
                Absent)
    ELSE refreshConversation(callId, ai, ti, details, writeOk)

\* ---- the steps of a batch operation
BatchStep(op, b) == [Idle EXCEPT !.op = op, !.batch = b]

\* the run that came before, as the next import sees it
PreviousOf(b) ==
    IF b.op = ImportOp /\ b.phase = "done"
    THEN [op |-> b.op, items |-> b.items,
          results |-> [k \in 1..Len(b.results) |-> b.results[k].status],
          stored |-> StoredIds(store)]
    ELSE NoBatch.previous

StartedBatch(op, items, phase) ==
    [NoBatch EXCEPT !.op = op, !.items = items,
                    !.phase = IF Len(items) = 0 THEN "done" ELSE phase,
                    !.readyAt = now, !.before = StoredIds(store)]

\* listUltravoxCalls(limit), then the loop over the groups
ImportConversationsFromUltravox(listings) ==
    /\ BatchIdle
    /\ \E listing \in listings :
          /\ now + WaitsOf(ImportOp, Len(listing.results)) * ImportDelay <= MaxBatchTime
          /\ last' = IF listing.ok
                     THEN BatchStep(ImportOp,
                              [StartedBatch(ImportOp, listing.results, "ready")
                                  EXCEPT !.previous = PreviousOf(last.batch)])
                     ELSE [Idle EXCEPT !.op = ImportOp, !.outcome = "Error"]
    /\ UNCHANGED <<store, analysisCache, now, gemini, useMongo, alerts>>

ValidateConversationsAgainstUltravox ==
    /\ BatchIdle
    /\ now + WaitsOf(ValidateOp, Len(getConversations(store))) * ValidateDelay
          <= MaxBatchTime
    /\ last' = BatchStep(ValidateOp,
                   StartedBatch(ValidateOp, getConversations(store), "ready"))
    /\ UNCHANGED <<store, analysisCache, now, gemini, useMongo, alerts>>

\* batch.map(...): every item of the group is started
StartGroup ==
    /\ last.batch.phase = "ready"
    /\ last' = BatchStep(last.batch.op,
                   [last.batch EXCEPT
                       !.phase = "running",
                       !.inflight = GroupOf(last.batch),
                       !.settled = [k \in 1..Cardinality(GroupOf(last.batch)) |->
                                       [id |-> UNDEF, status |-> "pending",
                                        settled |-> "pending", cause |-> UNDEF]]])
    /\ UNCHANGED <<store, analysisCache, now, gemini, useMongo, alerts>>

SettledItem(b, k, entry) ==
    [b EXCEPT !.inflight = @ \ {k}, !.settled[k - b.i + 1] = entry]

\* one processUltravoxCall of the group runs to its end
SettleImportItem(inputs) ==
    /\ last.batch.op = ImportOp
    /\ last.batch.phase = "running"
    /\ \E k \in last.batch.inflight :
       LET call == last.batch.items[k]
           callId == Or(call.id, call.callId)
           Settled(e) ==
               /\ store' = e.store
               /\ analysisCache' = e.cache
               /\ last' = [e.last EXCEPT
                             !.batch = SettledItem(last.batch, k,
                                 IF e.last.outcome = "Error"
                                 THEN RejectedWith(Or(call.id, "unknown"), e.last.outcome)
                                 ELSE Fulfilled(Or(callId, "unknown"),
                                                e.last.outcome, e.last.wrote))]
       IN \E ai \in BatchAudioInputs(callId, inputs.answers) :
          \E details \in (IF Truthy(callId)
                          THEN BatchDetailInputs(callId, ai, inputs.details)
                          ELSE {"ok_url"}) :
          \E lookupOk \in (IF Truthy(callId) /\ Exists(callId)
                           THEN inputs.lookups ELSE {TRUE}) :
          \E writeOk \in (IF Truthy(callId) THEN inputs.writes ELSE {TRUE}) :
              Settled(processUltravoxCall(call, ai, Unused, details, lookupOk, writeOk))
    /\ UNCHANGED <<now, gemini, useMongo, alerts>>

\* one getUltravoxCall of the group is answered
SettleValidateItem(lookups) ==
    /\ last.batch.op = ValidateOp
    /\ last.batch.phase = "running"
    /\ \E k \in last.batch.inflight, lookup \in lookups :
          last' = BatchStep(ValidateOp,
                      SettledItem(last.batch, k,
                          validateConversation(last.batch.items[k], lookup)))
    /\ UNCHANGED <<store, analysisCache, now, gemini, useMongo, alerts>>

\* batchResults.forEach(...): what a settled group adds to the results
Collected(op, settled) ==
    IF op = ImportOp
    THEN settled
    ELSE SelectSeq(settled, LAMBDA r : r.settled = "fulfilled")

\* Promise.allSettled resolves; the results are collected and, if items
\* remain, the wait begins
CollectGroup ==
    /\ last.batch.phase = "running"
    /\ last.batch.op \in {ImportOp, ValidateOp}
    /\ last.batch.inflight = {}
    /\ LET b == last.batch
           more == b.i + BatchSizeOf(b.op) <= Len(b.items)
       IN last' = BatchStep(b.op,
                      [b EXCEPT !.results = @ \o Collected(b.op, b.settled),
                                !.settled = <<>>,
                                !.i = @ + BatchSizeOf(b.op),
                                !.phase = IF more THEN "delay" ELSE "done",
                                !.readyAt = IF more THEN now + DelayOf(b.op) ELSE now])
    /\ UNCHANGED <<store, analysisCache, now, gemini, useMongo, alerts>>

\* the setTimeout between two groups fires
DelayElapsed ==
    /\ last.batch.phase = "delay"
    /\ now' = last.batch.readyAt
    /\ last' = BatchStep(last.batch.op, [last.batch EXCEPT !.phase = "ready"])
    /\ UNCHANGED <<store, analysisCache, gemini, useMongo, alerts>>

\* ---- batchRefreshConversations: the conversations one after the other
BatchRefreshConversations ==
    /\ BatchIdle
    /\ last' = BatchStep(RefreshOp,
                   StartedBatch(RefreshOp, getConversations(store), "running"))
    /\ UNCHANGED <<store, analysisCache, now, gemini, useMongo, alerts>>

\* a loop that gives up at the first conversation it cannot refresh
AfterConversationAbort(b, entry) ==
    [b EXCEPT !.results = Append(@, entry), !.i = @ + 1,
              !.phase = IF b.i = Len(b.items) \/ entry.status = "failed"
                        THEN "done" ELSE "running"]

\* the loop has dealt with one more conversation
AfterConversation(b, entry) ==
    [b EXCEPT !.results = Append(@, entry), !.i = @ + 1,
              !.phase = IF b.i = Len(b.items) THEN "done" ELSE "running"]

RefreshNextConversation(inputs) ==
    /\ last.batch.op = RefreshOp
    /\ last.batch.phase = "running"
    /\ LET conv == last.batch.items[last.batch.i]
           Refreshed(e) ==
               /\ store' = e.store
               /\ analysisCache' = e.cache
               /\ last' = [e.last EXCEPT
                             !.op = RefreshOp,
                             !.batch = AfterConversation(last.batch,
                                 Fulfilled(conv.id,
                                           IF e.last.outcome = "ok"
                                           THEN "updated" ELSE "failed",
                                           e.last.outcome))]
       IN IF ~Truthy(conv.transcript) \/ Trim(conv.transcript) = ""
          THEN \E lookupOk \in inputs.lookups :
               \E ai \in (IF lookupOk /\ Exists(conv.id)
                          THEN BatchAudioInputs(conv.id, inputs.answers)
                          ELSE {[locator |-> "unused", outcomes |-> Unused]}) :
               \E details \in (IF lookupOk /\ Exists(conv.id)
                               THEN BatchDetailInputs(conv.id, ai, inputs.details)
                               ELSE {"ok_url"}) :
               \E writeOk \in (IF lookupOk /\ Exists(conv.id)
                               THEN inputs.writes ELSE {TRUE}) :
                   Refreshed(refreshStoredConversation(conv.id, lookupOk, ai, Unused,
                                                       details, writeOk))
          ELSE /\ last' = BatchStep(RefreshOp,
                              AfterConversation(last.batch,
                                  Fulfilled(conv.id, "skipped", "has_transcript")))
               /\ UNCHANGED <<store, analysisCache>>
    /\ UNCHANGED <<now, gemini, useMongo, alerts>>

\* an import whose listing holds one call, from its start to its return
ImportOneCall ==
    /\ \E callId \in Ids :
       \E ai \in BatchAudioInputs(callId, OneCallInputs.answers) :
       \E details \in BatchDetailInputs(callId, ai, OneCallInputs.details) :
       \E writeOk \in OneCallInputs.writes :
          LET Imported(e) ==
                  Commit([e EXCEPT !.last.batch =
                      [StartedBatch(ImportOp, <<ListedCall(callId)>>, "done") EXCEPT
                          !.i = 2,
                          !.results = <<Fulfilled(callId, e.last.outcome,
                                                  e.last.wrote)>>]])
          IN Imported(processUltravoxCall(ListedCall(callId), ai, Unused, details,
                                          TRUE, writeOk))
    /\ UNCHANGED <<now, gemini, useMongo, alerts>>

Next ==
    \/ Expire
    \/ CreateConversation
    \/ ProcessCallCompletion
    \/ HandleUltravoxEvents
    \/ RefreshConversation
    \/ RegenerateAnalysis
    \/ ImportOneCall

Spec == Init /\ [][Next]_vars

\* ---- the batch operations over a few conversations, with every outcome
\* a conversation completed before the process was last started
CompletedBefore(n) ==
    [id |-> ConvId(n), twilioCallSid |-> "s" \o ToString(n), from |-> "+91",
     createdAt |-> 0, transcript |-> "t1", recordingUrl |-> FreshUrl(0),
     tendency |-> "high", score |-> 7, immediateIntervention |-> TRUE,
     status |-> "completed", processingMethod |-> "pure_gemini_audio_analysis"]

InitBatch ==
    /\ store = [id \in BatchIds |->
                    IF id = ConvId(3) THEN CompletedBefore(3) ELSE Absent]
    /\ analysisCache = <<>>
    /\ now = 0
    /\ gemini = TRUE
    /\ useMongo = FALSE
    /\ alerts = [id \in BatchIds |-> 0]
    /\ last = Idle


NextBatch ==
    \/ ImportConversationsFromUltravox(
           {[ok |-> TRUE, results |-> <<ListedCall(ConvId(1)), ListedCall(UNDEF),
                                      ListedCall(ConvId(2))>>],
            [ok |-> FALSE, results |-> <<>>]})
    \/ ValidateConversationsAgainstUltravox
    \/ BatchRefreshConversations
    \/ StartGroup
    \/ SettleImportItem(RichInputs)
    \/ SettleValidateItem(Lookups)
    \/ CollectGroup
    \/ RefreshNextConversation(RichInputs)

SpecBatch == InitBatch /\ [][NextBatch]_vars

\* ---- the batch operations over more items than a group holds, every item
\* ---- meeting the same answer

InitGroups ==
    /\ store = [id \in {ConvId(n) : n \in 1..MaxStored} |->
                    CompletedBefore(CHOOSE n \in 1..MaxStored : ConvId(n) = id)]
    /\ analysisCache = <<>>
    /\ now = 0
    /\ gemini = TRUE
    /\ useMongo = FALSE
    /\ alerts = [id \in {ConvId(n) : n \in 1..MaxStored} |-> 0]
    /\ last = Idle


NextGroups ==
    \/ ImportConversationsFromUltravox(
           {[ok |-> TRUE, results |-> [n \in 1..MaxListed |-> ListedCall(ConvId(n))]]})
    \/ ValidateConversationsAgainstUltravox
    \/ StartGroup
    \/ SettleImportItem([answers |-> {}, lookups |-> {TRUE}, writes |-> {TRUE},
                         details |-> {"404"}])
    \/ SettleValidateItem({LookupOk})
    \/ CollectGroup
    \/ DelayElapsed

SpecGroups == InitGroups /\ [][NextGroups]_vars

\* ---- two lifecycle operations on one created conversation, one after the
\* ---- other or side by side: each reads the record and assesses (awaits),
\* ---- and writes later
InitOverlap ==
    /\ store = [id \in Ids |->
                    [Absent EXCEPT !.id = id, !.twilioCallSid = "s1", !.from = "+91",
                                   !.createdAt = 0, !.status = "active"]]
    /\ analysisCache = <<>>
    /\ now = 0
    /\ gemini = TRUE
    /\ useMongo \in BOOLEAN
    /\ alerts = [id \in Ids |-> 0]
    /\ last = Idle

\* an operation runs up to its `await upsertConversation(record)`
BeginOperation ==
    /\ Len(last.pending.waiting) + Len(last.pending.landed) < 2
    /\ \E callId \in Ids :
       LET Queue(op, e, keys) ==
               /\ e.last.outcome = "ok"
               /\ analysisCache' = e.cache
               /\ last' = [e.last EXCEPT
                             !.op = op, !.wrote = FALSE, !.events = <<>>,
                             !.pending =
                                 [waiting |-> Append(last.pending.waiting,
                                                     [op |-> op, record |-> e.record,
                                                      keys |-> keys]),
                                  landed |-> last.pending.landed,
                                  overlap |-> last.pending.waiting # <<>>]]
       IN \/ Queue("createConversation",
                   Effect(store, analysisCache,
                          [Idle EXCEPT !.ref = callId, !.id = callId, !.outcome = "ok"],
                          [Absent EXCEPT !.id = callId, !.twilioCallSid = "s1",
                                         !.from = "+91", !.createdAt = now,
                                         !.status = "active"]),
                   CreateKeys)
          \/ \E ai \in BatchAudioInputs(callId, OneCallInputs.answers) :
             \E details \in BatchDetailInputs(callId, ai, OneCallInputs.details) :
                \/ Queue("processCallCompletion",
                         processCallCompletion(callId, TRUE, ai, Unused, details, TRUE),
                         AllKeys)
                \/ Queue("refreshConversation",
                         refreshConversation(callId, ai, Unused, details, TRUE),
                         AllKeys)
                \/ Queue("regenerateAnalysis",
                         regenerateAnalysis(callId, ai, Unused, TRUE),
                         AllKeys)
    /\ UNCHANGED <<store, now, gemini, useMongo, alerts>>

\* one of the waiting writes is handed to the store
PersistWrite ==
    /\ \E k \in 1..Len(last.pending.waiting), writeOk \in BOOLEAN :
       LET w == last.pending.waiting[k]
       IN /\ store' = upsertConversation(store, w.record, w.keys, writeOk)
          /\ last' = [last EXCEPT
                        !.op = w.op, !.wrote = writeOk,
                        !.pending.waiting =
                            [j \in 1..(Len(@) - 1) |->
                                IF j < k THEN @[j] ELSE @[j + 1]],
                        !.pending.landed =
                            Append(@, [op |-> w.op, record |-> w.record,
                                       ok |-> writeOk])]
    /\ UNCHANGED <<analysisCache, now, gemini, useMongo, alerts>>

NextOverlap ==
    \/ BeginOperation
    \/ PersistWrite

SpecOverlap == InitOverlap /\ [][NextOverlap]_vars

\* ================================================================ properties
InEvents(e) == \E i \in 1..Len(last.events) : last.events[i] = e
AssessmentOps == {"analyzeAudioRecording", "classifyRiskAndCounselling"}

\* C1 (SpecAssess): analyzeAudioRecording and classifyRiskAndCounselling
\* always hand a result back, whatever fails on the audio path or the text
\* path; a result built from no provider answer is the degraded default:
\* risk level unknown, score 0, no immediate intervention.
C1_AssessmentAlwaysReturns ==
    last.op \in AssessmentOps =>
        /\ last.outcome = "ok"
        /\ last.via = "default" =>
              /\ last.analysis.tendency = "unknown"
              /\ last.analysis.score = 0
              /\ last.analysis.immediateIntervention = FALSE

\* the audio path ran out of attempts and the default came back
C1_Witness ==
    /\ last.op = "analyzeAudioRecording"
    /\ last.calls.audio = AudioMaxRetries
    /\ last.via = "default"
    /\ last.outcome = "ok"

CompletionOps == {"processCallCompletion", "handleUltravoxEvents"}

\* C2 (Spec): processCallCompletion with a reference that resolves to a
\* stored conversation persists a record for it before it ends, whatever the
\* assessment gave (the storage write itself not failing).
C2_CompletionAlwaysPersists ==
    (/\ last.op \in CompletionOps
     /\ last.id # UNDEF
     /\ ~InEvents("upsert_failed"))
    => last.wrote

\* C3 (Spec): when the audio path fails in a refresh or a regenerate of a
\* record that has a transcript, that transcript is what is submitted for
\* text analysis.
C3_StoredTranscriptReanalysed ==
    (/\ last.op \in {"refreshConversation", "regenerateAnalysis"}
     /\ last.audio = "default"
     /\ Truthy(last.prevTranscript)
     /\ gemini)
    => /\ last.text = last.prevTranscript
       /\ last.calls.text > 0

\* C4 (Spec): a refresh whose audio path fails persists a record that still
\* carries the transcript the record had.
C4_RefreshKeepsTranscript ==
    (/\ last.op = "refreshConversation"
     /\ last.audio = "default"
     /\ Truthy(last.prevTranscript)
     /\ last.wrote)
    => store[last.id].transcript = last.prevTranscript

\* C5 (Spec): regenerate on a stored record with no transcript, when the
\* recording locator cannot be fetched, fails with NoTranscript and writes
\* nothing.
C5_RegenerateRejectsWithoutSource ==
    (/\ last.op = "regenerateAnalysis"
     /\ last.id # UNDEF
     /\ ~Truthy(last.prevTranscript)
     /\ last.calls.locator = 1
     /\ last.calls.audio = 0
     /\ gemini)
    => /\ last.outcome = "NoTranscript"
       /\ last.events = <<>>

\* C6 (SpecAssess): a provider risk_level outside the defined levels becomes
\* unknown in the assessment, on the audio path and on the text path.
C6_UnrecognisedRiskIsUnknown ==
    (/\ last.op \in AssessmentOps
     /\ last.via = "provider"
     /\ last.raw \notin validRiskLevels)
    => last.analysis.tendency = "unknown"

\* C7 (Spec): a call end processed for the created conversation c1 by its own
\* id (processCallCompletion(c1, true), or a call-ended event carrying c1),
\* with the audio path answering risk high, intervention yes and a
\* transcript, leaves c1 completed with score 7 and immediate intervention,
\* and exactly one alert has been emitted.
C7_CallEndedByIdScenario ==
    (/\ last.op \in CompletionOps
     /\ last.ref = "c1"
     /\ last.outcome # "acknowledged"
     /\ Exists("c1")
     /\ gemini
     /\ ~InEvents("upsert_failed")
     /\ \/ ~last.assessed
        \/ /\ last.raw = "high"
           /\ last.analysis.immediateIntervention
           /\ Truthy(last.analysis.transcript))
    => /\ store["c1"].status = "completed"
       /\ store["c1"].score = 7
       /\ store["c1"].immediateIntervention
       /\ last.events = <<"upsert", "alert">>

\* C8 (Spec): processing a call-ended event emits the alert only after the
\* record has been persisted, and only if the persisted record says
\* immediate intervention.
C8_AlertAfterPersist ==
    (last.op = "handleUltravoxEvents" /\ InEvents("alert"))
    => /\ last.events[1] = "upsert"
       /\ store[last.id].immediateIntervention

\* C9 (Spec): whichever entry point persisted it, a persisted result with
\* immediate intervention has the alert hook invoked.
C9_EveryEntryPointAlerts ==
    (/\ last.op \in {"handleUltravoxEvents", "refreshConversation",
                     "regenerateAnalysis"}
     /\ last.wrote
     /\ store[last.id].immediateIntervention)
    => InEvents("alert")

\* C10 (Spec): a persisted completion or refresh leaves the status completed
\* when there is a transcript, else analysis_only or no_transcript when a
\* recording was analysed, else no_transcript; nothing else.
C10_StatusAfterAssessment ==
    (/\ last.op \in CompletionOps \cup {"refreshConversation"}
     /\ last.wrote)
    => IF Truthy(store[last.id].transcript)
       THEN store[last.id].status = "completed"
       ELSE IF Truthy(last.analysis.recordingUrl)
       THEN store[last.id].status \in {"analysis_only", "no_transcript"}
       ELSE store[last.id].status = "no_transcript"

\* C11 (Spec): a record whose status is completed still has status completed
\* after any refresh or regenerate of it, whatever that step's outcome.
C11_CompletedStaysCompleted ==
    [][\A id \in Ids :
          (/\ store[id].status = "completed"
           /\ last'.op \in {"refreshConversation", "regenerateAnalysis"}
           /\ last'.ref = id)
          => store'[id].status = "completed"]_vars

\* C12 (Spec): a persisted refresh reports transcriptUpdated exactly when the
\* transcript text it persisted differs from the text stored before it.
C12_TranscriptUpdatedIffChanged ==
    (last.op = "refreshConversation" /\ last.wrote)
    => (last.transcriptUpdated
        <=> store[last.id].transcript # Or(last.prevTranscript, ""))

SeqRange(q) == {q[i] : i \in 1..Len(q)}

\* C13 (SpecAssess): every locator an assessment downloads from was fetched
\* from the provider during that same call (it is the one issued now), never
\* one kept in the cache or in a record.
C13_DownloadsUseFetchedLocator ==
    last.op \in AssessmentOps =>
        \A i \in 1..Len(last.locators.downloads) :
            /\ last.locators.downloads[i] \in SeqRange(last.locators.fetched)
            /\ last.locators.downloads[i] = FreshUrl(now)

\* an audio pass that downloaded while the cache still held an older locator
\* of the same call
C13_Witness ==
    /\ last.op = "analyzeAudioRecording"
    /\ Len(last.locators.downloads) > 0
    /\ CacheIndex(analysisCache, AudioKey(last.ref)) # 0
    /\ analysisCache[CacheIndex(analysisCache, AudioKey(last.ref))].data.recordingUrl
           \notin SeqRange(last.locators.downloads)

\* C14 (SpecAssess): each audio attempt of an assessment, retries included,
\* downloads from a locator fetched for that attempt: as many fetches as
\* attempts, and no locator used by two attempts.
C14_LocatorPerAttempt ==
    last.op \in AssessmentOps =>
        /\ Len(last.locators.fetched) >= Len(last.locators.downloads)
        /\ \A i, j \in 1..Len(last.locators.downloads) :
              i # j => last.locators.downloads[i] # last.locators.downloads[j]

\* C15 (SpecAssess): an audio assessment served from the cache makes no
\* locator fetch, no download and no submission, and its result is marked
\* as cached.
C15_CacheHitReturnsCached ==
    (last.op = "analyzeAudioRecording" /\ last.via = "cache")
    => /\ last.calls = Calls(0, 0, 0)
       /\ last.locators = NoLocators
       /\ last.analysis.source = "cached"

\* the cache key an assessment call looks up
AssessedKey(l) ==
    IF l.op = "analyzeAudioRecording" \/ IsUrlLike(l.ref)
    THEN AudioKey(l.ref)
    ELSE TextKey(Trim(l.ref))

\* C16 (SpecAssess): an entry put at time T and still in the cache is served
\* to a lookup at every time before T + TTL and reported absent at every time
\* from T + TTL on; what is served is that entry's value, less than TTL old.
C16_EntryLivesForTtl ==
    [][\A i \in 1..Len(analysisCache) :
          (/\ last'.op \in AssessmentOps
           /\ Truthy(last'.ref)
           /\ analysisCache[i].key = AssessedKey(last'))
          => /\ (last'.via = "cache")
                    <=> (now < analysisCache[i].timestamp + CACHE_TTL)
             /\ last'.via = "cache"
                    => /\ last'.analysis = analysisCache[i].data
                       /\ now - analysisCache[i].timestamp < CACHE_TTL]_vars

\* a lookup served at the last instant of the entry's lifetime
C16_Witness ==
    /\ last.op \in AssessmentOps
    /\ last.via = "cache"
    /\ CacheIndex(analysisCache, AssessedKey(last)) # 0
    /\ now = analysisCache[CacheIndex(analysisCache, AssessedKey(last))].timestamp
                + CACHE_TTL - 1

\* C17 (SpecCache): whatever the order in which concurrent assessments look
\* up and put, the analysis cache never holds more than CACHE_MAX_SIZE entries.
C17_CacheWithinCapacity == Len(analysisCache) <= CACHE_MAX_SIZE

\* a put has just been made into a full cache
C17_Witness ==
    /\ last.op = "setCachedAnalysis"
    /\ last.outcome = "evicted"
    /\ Len(analysisCache) = CACHE_MAX_SIZE

RetryOps == {"performGeminiAudioAnalysisWithRetry", "performGeminiAnalysisWithRetry"}

\* attempts 1..N-1 time out and attempt N answers
TimeoutsThenAnswer(r) ==
    /\ \A k \in 1..(r.maxRetries - 1) : r.outcomes[k].kind = "timeout"
    /\ r.outcomes[r.maxRetries].kind = "response"

\* C19 (SpecRetry): a wrapper given N attempts whose attempts 1..N-1 time out
\* and whose attempt N answers returns that answer after exactly N-1 waits,
\* the wait before attempt k being RetryBase * 2^(k-1), each longer than the
\* one before.
C19_BackoffThenSuccess ==
    (last.op \in RetryOps /\ TimeoutsThenAnswer(last.retry))
    => LET r == last.retry.result
           n == last.retry.maxRetries
       IN /\ ~r.threw
          /\ r.attempts = n
          /\ r.value = IF last.op = "performGeminiAudioAnalysisWithRetry"
                       THEN validateGeminiAudioResponse(last.retry.outcomes[n])
                       ELSE validateGeminiResponse(last.retry.outcomes[n])
          /\ Len(r.delays) = n - 1
          /\ \A k \in 2..n : r.delays[k - 1] = RetryBase * 2 ^ (k - 1)
          /\ \A k \in 2..(n - 1) : r.delays[k - 1] < r.delays[k]

\* two time-outs, two waits, then the answer
C19_Witness ==
    /\ last.op = "performGeminiAudioAnalysisWithRetry"
    /\ last.retry.maxRetries = 3
    /\ TimeoutsThenAnswer(last.retry)
    /\ Len(last.retry.result.delays) = 2
    /\ ~last.retry.result.threw

\* C20 (SpecRetry): an attempt that fails with an unparseable provider answer
\* or a refused download (HTTP status such as 404) is the last attempt made:
\* only time-outs are retried.
C20_OnlyTransientRetried ==
    last.op \in RetryOps =>
        \A k \in 1..last.retry.result.attempts :
            last.retry.outcomes[k].kind \in {"invalid_json", "download_failed"}
                => last.retry.result.attempts = k

\* what attempt k of the last wrapper call raised, taken on its own
AttemptAlone(k) ==
    IF last.op = "performGeminiAudioAnalysisWithRetry"
    THEN performGeminiAudioAnalysis(FreshUrl(now), last.retry.outcomes[k])
    ELSE performGeminiAnalysis(last.retry.outcomes[k])

\* C21 (SpecRetry): when every one of the N attempts fails, the wrapper makes
\* exactly N attempts (N-1 waits, and for audio N downloads), throws, and the
\* error it throws is the one attempt N raised, unchanged.
C21_LastFailurePropagates ==
    (/\ last.op \in RetryOps
     /\ \A k \in 1..last.retry.maxRetries :
            last.retry.outcomes[k].kind # "response")
    => LET r == last.retry.result
           n == last.retry.maxRetries
       IN /\ r.threw
          /\ r.attempts = n
          /\ Len(r.delays) = n - 1
          /\ last.op = "performGeminiAudioAnalysisWithRetry" => Len(r.downloads) = n
          /\ AttemptAlone(n).threw
          /\ r.error = AttemptAlone(n).error

\* three failures of two different kinds; the last kind is what escapes
C21_Witness ==
    /\ last.op = "performGeminiAudioAnalysisWithRetry"
    /\ last.retry.maxRetries = 3
    /\ last.retry.outcomes[1].kind = "timeout"
    /\ last.retry.outcomes[2].kind = "download_failed"
    /\ last.retry.outcomes[3].kind = "invalid_json"
    /\ last.retry.result.threw
    /\ last.retry.result.attempts = 3
    /\ last.retry.result.error = "invalid_json"

\* the order of the levels, lowest first ('no' is the source's name of the
\* lowest level)
LevelRank(l) ==
    CASE l \in {"no", "none"} -> 0
      [] l = "low" -> 1
      [] l = "medium" -> 2
      [] l = "high" -> 3
      [] l = "severe" -> 4

RankedLevels == {"no", "none", "low", "medium", "high", "severe"}

\* C22 (SpecScore): the score of a level is the table's value whatever the
\* time and the configuration: lowest level 0, low 2, medium 4, high 7,
\* severe 10, unknown 0; and no level scores more than a level above it.
C22_ScoreTable ==
    last.op = "mapRiskLevelToScore"
    => LET l == last.analysis.tendency
           score == last.analysis.score
       IN /\ l \in {"no", "none"} => score = 0
          /\ l = "low" => score = 2
          /\ l = "medium" => score = 4
          /\ l = "high" => score = 7
          /\ l = "severe" => score = 10
          /\ l = "unknown" => score = 0
          /\ l \in RankedLevels =>
                \A lower \in RankedLevels :
                    LevelRank(lower) <= LevelRank(l)
                        => mapRiskLevelToScore(lower) <= score

\* 'high' scored at a later time, after every lower level compared with it
C22_Witness ==
    /\ last.op = "mapRiskLevelToScore"
    /\ last.via = "direct"
    /\ last.raw = "high"
    /\ last.analysis.score = 7
    /\ now = CACHE_TTL

\* the table the specification gives for the score of a level
ScoreOfLevel(l) ==
    CASE l \in {"no", "none"} -> 0
      [] l = "low" -> 2
      [] l = "medium" -> 4
      [] l = "high" -> 7
      [] l = "severe" -> 10
      [] OTHER -> 0

\* C23 (Spec): every stored record that carries an assessment has the score
\* the table gives for its own risk level, whatever completions, refreshes,
\* regenerations and imports wrote it: neither an intervention flag nor
\* anything else adds to it.
C23_ScoreFollowsLevel ==
    \A id \in DOMAIN store :
        store[id].tendency # UNDEF
            => store[id].score = ScoreOfLevel(store[id].tendency)

\* a stored assessment that is high and flagged: 7, where a bonus would add
C23_Witness ==
    \E id \in DOMAIN store :
        /\ store[id].tendency = "high"
        /\ store[id].immediateIntervention
        /\ store[id].score = 7
        /\ last.wrote

\* C24 (Spec): a record is written with immediateIntervention set only when
\* its risk level is high or severe, or the provider answer the assessment
\* was built from carried the flag (now, or when the cached assessment was
\* made: an assessment enters the cache with the flag set only from such an
\* answer); an assessment that is a default never sets it.
C24_InterventionOnlyWhenFlagged ==
    [][/\ \A i \in 1..Len(analysisCache') :
              ((\A j \in 1..Len(analysisCache) : analysisCache[j] # analysisCache'[i])
               /\ analysisCache'[i].data.immediateIntervention)
                  => (last'.via = "provider" /\ last'.flag = "yes")
       /\ \A id \in DOMAIN store :
              (store'[id] # store[id] /\ store'[id].immediateIntervention)
                  => /\ last'.via # "default"
                     /\ \/ store'[id].tendency \in {"high", "severe"}
                        \/ (last'.via = "provider" /\ last'.flag = "yes")
                        \/ last'.via = "cache"]_vars

\* a record written with the flag set although its level is the lowest: the
\* provider answer carried the flag and a level outside the table
C24_Witness ==
    \E id \in DOMAIN store :
        /\ last.wrote
        /\ last.id = id
        /\ store[id].immediateIntervention
        /\ store[id].tendency = "no"
        /\ (last.via = "provider" /\ last.flag = "yes")

\* the batch operation op has returned its result list
HasReturned(op) == last.batch.op = op /\ last.batch.phase = "done"

\* C25 (SpecBatch): when an import has returned, every listed call with an
\* identifier has one entry, 'created' if no record with its id was stored
\* when the import began and 'updated' if one was, and a record with its id
\* is stored; every listed call without an identifier has the entry 'skipped'.
C25_ImportReportsUpserts ==
    HasReturned(ImportOp)
    => LET b == last.batch
       IN /\ Len(b.results) = Len(b.items)
          /\ \A k \in 1..Len(b.items) :
                LET callId == Or(b.items[k].id, b.items[k].callId)
                IN IF Truthy(callId)
                   THEN /\ b.results[k].id = callId
                        /\ b.results[k].status =
                               IF callId \in b.before THEN "updated" ELSE "created"
                        /\ callId \in StoredIds(store)
                   ELSE b.results[k].status = "skipped"

\* C26 (SpecBatch): when an import has returned that directly followed an
\* import of the same listing, it reports no call 'created', it reports
\* 'updated' every call the first import reported 'created' or 'updated',
\* and the stored ids are those stored after the first import.
C26_SecondImportCreatesNothing ==
    (/\ HasReturned(ImportOp)
     /\ last.batch.previous.op = ImportOp
     /\ last.batch.previous.items = last.batch.items)
    => LET b == last.batch
       IN /\ \A k \in 1..Len(b.results) : b.results[k].status # "created"
          /\ \A k \in 1..Len(b.results) :
                b.previous.results[k] \in {"created", "updated"}
                    => b.results[k].status = "updated"
          /\ StoredIds(store) = b.previous.stored

\* C27 (SpecBatch): when a validation has returned, an entry is 'valid'
\* exactly if the lookup of its conversation succeeded, 'invalid' exactly if
\* the lookup failed with status 404, and 'error' exactly if it failed
\* otherwise; so three conversations of which one meets a 404 and two are
\* found give one 'invalid' and two 'valid' entries.
C27_ValidateClassifies ==
    HasReturned(ValidateOp)
    => LET b == last.batch
           With(status) == {k \in 1..Len(b.results) : b.results[k].status = status}
       IN /\ \A k \in 1..Len(b.results) :
                LET r == b.results[k]
                IN /\ r.status = "valid" <=> r.cause.ok
                   /\ r.status = "invalid" <=> (~r.cause.ok /\ r.cause.status = 404)
                   /\ r.status = "error" <=> (~r.cause.ok /\ r.cause.status # 404)
          /\ (/\ Len(b.results) = 3
              /\ Cardinality({k \in 1..3 : b.results[k].cause.status = 404}) = 1
              /\ Cardinality({k \in 1..3 : b.results[k].cause.ok}) = 2)
             => /\ Cardinality(With("invalid")) = 1
                /\ Cardinality(With("valid")) = 2

\* C28 (SpecBatch): when an import or a validation has returned, its result
\* list has one entry for each item, in order and under the item's
\* identifier, whatever any item met: no item is left without an outcome
\* because another one failed.
C28_OneEntryPerItem ==
    (HasReturned(ImportOp) \/ HasReturned(ValidateOp))
    => LET b == last.batch
       IN /\ Len(b.results) = Len(b.items)
          /\ \A k \in 1..Len(b.items) :
                /\ b.results[k].id =
                       IF b.op = ImportOp
                       THEN Or(Or(b.items[k].id, b.items[k].callId), "unknown")
                       ELSE b.items[k].id
                /\ b.results[k].status # "pending"

\* the first lookup threw an error that is no 404, the others were answered
C28_Witness ==
    /\ HasReturned(ValidateOp)
    /\ Len(last.batch.results) = 3
    /\ last.batch.results[1].status = "error"
    /\ ~last.batch.results[1].cause.ok
    /\ last.batch.results[2].status = "valid"
    /\ last.batch.results[3].status = "invalid"

\* C29 (SpecGroups): an import never has more than 5 of its calls, and a
\* validation never more than 10 of its conversations, being processed at
\* once; items are started only while none is being processed, when every
\* item before them has its result collected and the wait that followed the
\* previous group is over.
C29_GroupsBounded ==
    [][/\ last'.batch.op = ImportOp => Cardinality(last'.batch.inflight) <= 5
       /\ last'.batch.op = ValidateOp => Cardinality(last'.batch.inflight) <= 10
       /\ (last'.batch.inflight \ last.batch.inflight # {})
             => /\ last.batch.inflight = {}
                /\ Len(last.batch.results) = last.batch.i - 1
                /\ \A k \in last'.batch.inflight : k >= last.batch.i
                /\ now >= last.batch.readyAt
                /\ last.batch.i > 1 =>
                       last.batch.readyAt >= DelayOf(last.batch.op)]_vars

\* the second group of a validation is being processed, 200 ms after the
\* ten conversations of the first were collected
C29_Witness ==
    /\ last.batch.op = ValidateOp
    /\ last.batch.phase = "running"
    /\ last.batch.i = 11
    /\ last.batch.inflight # {}
    /\ Len(last.batch.results) = 10
    /\ now = 200

C31_CreatePersistsActive ==
    last.op = "create"
    => /\ Exists(last.id)
       /\ store[last.id].status = "active"
       /\ store[last.id] =
              [Absent EXCEPT !.id = last.id,
                             !.twilioCallSid = store[last.id].twilioCallSid,
                             !.from = store[last.id].from,
                             !.createdAt = store[last.id].createdAt,
                             !.status = "active"]

\* C32 (Spec): a completion whose reference belongs to no stored conversation
\* (no record has it as its id when it is given as the id, no record has it
\* as its Twilio CallSid when it comes from an event) ends with NotFound
\* and leaves everything as it was: no provider is called, the store and the
\* cache are unchanged and no alert is sent.
C32_UnresolvedCompletionHasNoEffect ==
    [][(\/ /\ last'.op = "processCallCompletion"
           /\ ~(last'.ref \in Ids /\ Exists(last'.ref))
        \/ /\ last'.op = "handleUltravoxEvents"
           /\ last'.outcome # "acknowledged"
           /\ \A id \in Ids : ~(Exists(id) /\ store[id].twilioCallSid = last'.ref))
       => /\ last'.outcome = "NotFound"
          /\ ~last'.assessed
          /\ last'.calls = Calls(0, 0, 0)
          /\ ~last'.wrote
          /\ last'.events = <<>>
          /\ store' = store
          /\ analysisCache' = analysisCache
          /\ alerts' = alerts]_vars

\* an event whose CallSid no stored conversation carries was turned away
C32_Witness ==
    /\ last.op = "handleUltravoxEvents"
    /\ last.outcome = "NotFound"
    /\ last.ref \in Sids
    /\ \A id \in Ids : store[id].twilioCallSid # last.ref

\* C33 (SpecOverlap): when two operations on the conversation ran side by
\* side and both have handed their write to the store, the stored record is,
\* field for field, the record of the write that was carried out last.
C33_LastWriteWins ==
    (/\ last.pending.overlap
     /\ last.pending.waiting = <<>>
     /\ Len(last.pending.landed) = 2
     /\ \E k \in 1..2 : last.pending.landed[k].ok)
    => LET carried == SelectSeq(last.pending.landed, LAMBDA w : w.ok)
           final == carried[Len(carried)]
       IN store[final.record.id] = final.record

\* C34 (SpecBatch): no step of an import, a validation or a batch refresh
\* takes a record out of the store: every id stored before a step is stored
\* after it.
C34_StoredIdsNeverShrink ==
    [][StoredIds(store) \subseteq StoredIds(store')]_vars

\* a validation has reported a conversation 'invalid' and its record is
\* still stored, next to the records an import added
C34_Witness ==
    /\ HasReturned(ValidateOp)
    /\ Cardinality(StoredIds(store)) = 3
    /\ \E k \in 1..Len(last.batch.results) :
          /\ last.batch.results[k].status = "invalid"
          /\ last.batch.results[k].id \in StoredIds(store)

\* C35 (Spec): when a call.ended event that carries the id of a stored
\* conversation has been handled, the event was resolved to that
\* conversation and an assessment of it was made (the step every persisted
\* result of the event depends on).
C35_EventByOwnIdResolves ==
    (/\ last.op = "handleUltravoxEvents"
     /\ last.outcome # "acknowledged"
     /\ last.ref \in Ids
     /\ Exists(last.ref))
    => /\ last.outcome # "NotFound"
       /\ last.id = last.ref
       /\ last.assessed

\* C36 (Spec): when a completion, a refresh or a regeneration has returned a
\* record, or an import has reported its call 'created' or 'updated', a
\* record with that id is stored and carries the level, score and
\* intervention flag of the assessment that was returned.
C36_ReturnedRecordIsStored ==
    (\/ /\ last.op \in {"processCallCompletion", "refreshConversation",
                        "regenerateAnalysis"}
        /\ last.outcome = "ok"
     \/ /\ last.op = ImportOp
        /\ last.outcome \in {"created", "updated"})
    => /\ Exists(last.id)
       /\ store[last.id].tendency = last.analysis.tendency
       /\ store[last.id].score = last.analysis.score
       /\ store[last.id].immediateIntervention = last.analysis.immediateIntervention

\* C37 (SpecAssess): an assessment call that ends with a degraded default
\* leaves the cache as it was; every entry a call adds to the cache is the
\* result it returns, built from a validated provider answer and carrying
\* no error, under the key the call looked up; and an audio assessment that
\* follows a degraded one of the same call fetches the locator again.
C37_OnlyProviderResultsCached ==
    [][/\ (last'.op \in AssessmentOps /\ last'.via = "default")
            => analysisCache' = analysisCache
       /\ \A i \in 1..Len(analysisCache') :
             (\A j \in 1..Len(analysisCache) : analysisCache[j] # analysisCache'[i])
             => /\ last'.op \in AssessmentOps
                /\ last'.via = "provider"
                /\ last'.raw # UNDEF
                /\ analysisCache'[i].key = AssessedKey(last')
                /\ analysisCache'[i].data = last'.analysis
                /\ analysisCache'[i].data.error = UNDEF
       /\ (/\ last.op = "analyzeAudioRecording" /\ last.via = "default"
           /\ last'.op = "analyzeAudioRecording" /\ last'.ref = last.ref
           /\ Truthy(last'.ref))
             => /\ last'.via # "cache"
                /\ last'.calls.locator = 1]_vars

\* both audio attempts failed: the call returned the degraded default and
\* the cache holds nothing under its key
C37_Witness ==
    /\ last.op = "analyzeAudioRecording"
    /\ last.via = "default"
    /\ last.calls = Calls(1, 2, 0)
    /\ last.analysis.error = "analysis_failed"
    /\ CacheIndex(analysisCache, AudioKey(last.ref)) = 0

\* C38 (Spec): a completion, an event, a refresh, a regeneration or an
\* import leaves the id, the originator (from), the Twilio CallSid and
\* createdAt of every record that was stored before it as they were.
C38_IdentityFieldsKept ==
    [][\A id \in Ids :
          (/\ Exists(id)
           /\ last'.op \in {"processCallCompletion", "handleUltravoxEvents",
                            "refreshConversation", "regenerateAnalysis", ImportOp})
          => /\ store'[id].id = store[id].id
             /\ store'[id].from = store[id].from
             /\ store'[id].twilioCallSid = store[id].twilioCallSid
             /\ store'[id].createdAt = store[id].createdAt]_vars

\* C39 (SpecAssess): a text assessment that is served from the cache right
\* after a text assessment was computed and cached under the same key was
\* asked for the text that one was computed from.
C39_CachedTextIsSameText ==
    [][(/\ last.op = "classifyRiskAndCounselling"
        /\ last.via = "provider"
        /\ last'.op = "classifyRiskAndCounselling"
        /\ last'.via = "cache"
        /\ ~IsUrlLike(last.text) /\ ~IsUrlLike(last'.text)
        /\ TextKey(Trim(last'.text)) = TextKey(Trim(last.text)))
       => last'.text = last.text]_vars

\* C40 (SpecRun): every assessment call that has begun returns, even when the
\* providers never respond: until then it has fetched the locator at most
\* once and has begun at most AudioMaxRetries audio attempts and at most
\* TextMaxRetries text attempts, and the timers that ran out on the way add
\* up to no more than those of its awaits (the fetch alone, or every audio
\* submission and the backoff between the two, or every text submission and
\* the backoff between the two).
C40_AssessmentTerminates ==
    /\ [](last.op \in AssessmentOps =>
            /\ last.calls.locator <= 1
            /\ last.calls.audio <= AudioMaxRetries
            /\ last.calls.text <= TextMaxRetries
            /\ last.calls.audio > 0 => last.calls.text = 0
            /\ last.run.waited <=
                  IF last.calls.audio > 0
                  THEN AudioMaxRetries * 300000 + RetryDelay(1)
                  ELSE IF last.calls.text > 0
                  THEN TextMaxRetries * 15000 + RetryDelay(1)
                  ELSE 15000)
    /\ (last.outcome = "running") ~> (last.outcome = "ok")

\* an audio assessment both of whose submissions were never answered: it
\* returned after two five-minute timers and the two-second backoff
C40_Witness ==
    /\ last.op = "analyzeAudioRecording"
    /\ last.outcome = "ok"
    /\ last.calls = Calls(1, 2, 0)
    /\ last.run.met = <<Failure("timeout"), Failure("timeout")>>
    /\ last.run.waited = 2 * 300000 + 2000
    /\ last.analysis.error = "analysis_failed"

====
